---- MODULE Spec2Model ----
(***************************************************************************)
(* Tracking-and-retry subsystem of the Pectra analyzer backend: the chain  *)
(* scanner (tracker/l2_monitor.rs), the failed-transaction retry queue     *)
(* (tracker/retry_handler.rs) and the SQLite store they share              *)
(* (tracker/database.rs).  Every action is one step between two            *)
(* suspension points (.await) of the code.                                 *)
(***************************************************************************)
EXTENDS Integers, Sequences, FiniteSets, TLC

VARIABLES
    l2_batches_txs,       \* table l2_batches_txs, rows in rowid order
    failed_transactions,  \* table failed_transactions, rows in rowid order
    now,                  \* the system clock, seconds since the epoch
    s_pc,                 \* start_monitoring: the await the Scanner is suspended at
    start_block,          \* start_monitoring: start_block
    current_block,        \* start_monitoring: current_block
    s_addr,               \* start_monitoring: index of batcher_address in the list
    s_response,           \* start_monitoring: response.result still to process
    s_tx,                 \* start_monitoring: tx_hash
    s_batch,              \* start_monitoring: tracked_batch
    sf_args,              \* save_failed_transaction: tx_hash, batcher_address, error_message
    sf_current_time,      \* save_failed_transaction: current_time
    sf_failed_tx,         \* save_failed_transaction: failed_tx / the update's arguments
    sf_return,            \* save_failed_transaction: who called it
    s_outcome,            \* what the Scanner's last step logged about a transaction
    r_pc,                 \* start_retry_loop: the await the retry loop is suspended at
    r_queue,              \* process_retry_queue: failed_transactions still to process
    r_tx,                 \* process_retry_queue: failed_tx
    r_batch,              \* process_retry_queue: tracked_batch
    r_update,             \* process_retry_queue: arguments of the pending update
    r_outcome,            \* what the retry handler logged for failed_tx, during the delay
    s_returned,           \* history: tx hashes the provider returned in this cycle
    observed_max,         \* history: highest head of the cycles whose update succeeded
    failures,             \* history: analysis failures recorded per tx hash
    faults,               \* history: store and provider calls that returned Err
    daily_batcher_stats,  \* table daily_batcher_stats
    sn_pc,                \* start_snapshot_loop: the await the snapshot task is suspended at
    start_ts,             \* create_and_save_snapshot: start_ts
    daily_txs,            \* create_and_save_snapshot: daily_txs, by batcher_address
    eth_saved,            \* create_and_save_snapshot: eth_saved, by batcher_address
    blob_gas,             \* create_and_save_snapshot: blob_gas, by batcher_address
    pectra_gas,           \* create_and_save_snapshot: pectra_gas, by batcher_address
    interval,             \* start_snapshot_loop: the instant of interval's next tick
    w_batch,              \* a task storing a row: its tracked_batch
    sn_history,           \* history: the calls of create_and_save_snapshot
    db_call               \* a client of the store: its last call of Database, with the result

vars == << l2_batches_txs, failed_transactions, now, s_pc, start_block,
           current_block, s_addr, s_response, s_tx, s_batch, sf_args,
           sf_current_time, sf_failed_tx, sf_return, s_outcome, r_pc, r_queue, r_tx, r_batch, r_update,
           r_outcome, s_returned, observed_max, failures, faults,
           daily_batcher_stats, sn_pc, start_ts, daily_txs, eth_saved, blob_gas,
           pectra_gas, interval, w_batch, sn_history, db_call >>

store_vars   == << l2_batches_txs, failed_transactions >>
scanner_vars == << s_pc, start_block, current_block, s_addr, s_response, s_tx,
                   s_batch, sf_args, sf_current_time, sf_failed_tx, sf_return, s_outcome >>
retry_vars   == << r_pc, r_queue, r_tx, r_batch, r_update, r_outcome >>
history_vars == << s_returned, observed_max, failures, faults >>
ghost_vars   == << s_returned, observed_max, failures >>
snapshot_vars == << daily_batcher_stats, sn_pc, start_ts, daily_txs, eth_saved,
                    blob_gas, pectra_gas, interval, w_batch, sn_history >>
client_vars  == << db_call >>

-----------------------------------------------------------------------------
(* Bounds of the model *)

\* the clock stops at MaxTime
MaxTime == 60
\* the clock of the long runs of one transaction stops at MaxTimeLimit
MaxTimeLimit == 3780
\* the clock of the runs of the RetryHandler under a caller stops at MaxTimeApi
MaxTimeApi == 180
\* the clock of the snapshot runs stops at MaxTimeSnapshot
MaxTimeSnapshot == 259210
\* the history counter of analysis failures saturates here
MaxFailures == 6
\* store and provider calls that can return Err in one behaviour
MaxFaults == 1
\* the clock of the retry loop on a stored queue stops here, in seconds
MaxTimeQueue == 300
\* the clock of the retry loop under a caller on a stored queue stops here
MaxTimeEnqueue == 200

-----------------------------------------------------------------------------
(* Program constants *)

MAX_RETRY_ATTEMPTS == 5
BASE_RETRY_DELAY == 60
MAX_RETRY_DELAY == 3600
\* the page size the Scanner passes to get_normal_txs
PAGE_SIZE == 10
\* timestamp of the 'monitoring_state' row
STATE_ROW_TIMESTAMP == 0
\* the block the cursor is bootstrapped with (the head read by main)
INITIAL_BLOCK == 0
\* SQL NULL in the integer column last_analyzed_block
NULL == -1

BASE == "0x5050F69a9786F081509234F1a7F4684b5E5b76C9"
OPTIMISM == "0x6887246668a3b87F54DeB3b94Ba47a6f63F32985"
L2_BATCHERS_ADDRESSES == << BASE, OPTIMISM >>

\* format!("{:#x}", address): 0x-prefixed lower-case hex
FormatAddress(a) ==
    CASE a = BASE -> "0x5050f69a9786f081509234f1a7f4684b5e5b76c9"
      [] a = OPTIMISM -> "0x6887246668a3b87f54deb3b94ba47a6f63f32985"
      [] OTHER -> a

\* the two addresses in upper case, and an address with no transaction
BASE_UPPER == "0x5050F69A9786F081509234F1A7F4684B5E5B76C9"
OPTIMISM_UPPER == "0x6887246668A3B87F54DEB3B94BA47A6F63F32985"
UNKNOWN == "0x00000000000000000000000000000000000000aa"

\* str::to_lowercase on the address spellings of the model
to_lowercase(s) ==
    CASE s \in { BASE, BASE_UPPER } -> "0x5050f69a9786f081509234f1a7f4684b5e5b76c9"
      [] s \in { OPTIMISM, OPTIMISM_UPPER } -> "0x6887246668a3b87f54deb3b94ba47a6f63f32985"
      [] OTHER -> s

\* variant of LOWER: the parameter is compared as given
LOWER_AsGiven(s) == s

\* LOWER(?) of SQLite on the address spellings of the model
LOWER(s) ==
    CASE s \in { BASE, BASE_UPPER } -> "0x5050f69a9786f081509234f1a7f4684b5e5b76c9"
      [] s \in { OPTIMISM, OPTIMISM_UPPER } -> "0x6887246668a3b87f54deb3b94ba47a6f63f32985"
      [] OTHER -> s

-----------------------------------------------------------------------------
(* The environment: the chain, the explorer API, the analysis function *)

\* Transactions on the chain: 32-byte hashes (here 10 and 11), their block and
\* the monitored addresses whose txlist holds them.
ChainTxs == << [hash |-> 10, block |-> 1, addrs |-> {BASE, OPTIMISM}],
               [hash |-> 11, block |-> 1, addrs |-> {BASE}] >>

\* the chain with only its second transaction, which one batcher sent
ShortChain == SubSeq(ChainTxs, 2, 2)

\* the heads get_block_number can report for a chain: any block up to its last
Heads(chain) == 0 .. chain[Len(chain)].block

\* format!("{:#x}", tx.hash)
FormatHash(h) == CASE h = 10 -> "0xa" [] h = 11 -> "0xb" [] OTHER -> "0x0"

\* FixedBytes::from_hex(&tx_hash); -1 is the parse error
FromHex(s) == CASE s = "0xa" -> 10 [] s = "0xb" -> 11 [] OTHER -> -1

\* the formatted hashes of a chain's transactions
Hashes(chain) == { FormatHash(chain[i].hash) : i \in DOMAIN chain }

TxHashes == Hashes(ChainTxs)

RECURSIVE TxList(_, _, _, _)
\* the hashes of the chain's transactions that involve address in blocks start..end
TxList(chain, address, start, end) ==
    IF chain = << >> THEN << >>
    ELSE LET t == Head(chain)
             rest == TxList(Tail(chain), address, start, end)
         IN IF address \in t.addrs /\ start <= t.block /\ t.block <= end
            THEN << t.hash >> \o rest ELSE rest

\* txlist&address&startblock&endblock&page=1&offset&sort=asc
get_normal_txs(chain, address, start, end, offset) ==
    LET all == TxList(chain, address, start, end)
    IN IF Len(all) <= offset THEN all ELSE SubSeq(all, 1, offset)

\* serialised TxAnalysisResponse values analyze_transaction can return
AnalysisResults ==
    { [blob_gas_used |-> 1, eip_7623_calldata_gas |-> 4,
       blob_data_wei_spent |-> 2, eip_7623_calldata_wei_spent |-> 5],
      [blob_gas_used |-> 2, eip_7623_calldata_gas |-> 1,
       blob_data_wei_spent |-> 7, eip_7623_calldata_wei_spent |-> 3] }

\* HandlerError messages analyze_transaction can return
AnalysisErrors == { "Provider error", "Transaction not found" }

\* serde_json::to_string(&analysis): the JSON object with the struct's fields
to_string(analysis) == [json |-> analysis]

\* the text '{}'
EmptyJson == [json |-> [k \in {} |-> 0]]

-----------------------------------------------------------------------------
(* Values of the locals when they hold nothing *)

NoTx == "-"
NoBatch == [tx_hash |-> NoTx, batcher_address |-> NoTx, timestamp |-> 0,
            analysis_result |-> EmptyJson]
NoFailedTx == [tx_hash |-> NoTx, batcher_address |-> NoTx, error_message |-> NoTx,
               retry_count |-> 0, next_retry_at |-> 0, first_failed_at |-> 0,
               last_attempted_at |-> 0]
NoArgs == [tx_hash |-> NoTx, batcher_address |-> NoTx, error_message |-> NoTx]
NoUpdate == [retry_count |-> 0, next_retry_at |-> 0, error_message |-> NoTx]
NoCall == [op |-> "-", batch |-> NoBatch, failed_tx |-> NoFailedTx,
           batcher_address |-> NoTx, start_timestamp |-> 0, end_timestamp |-> 0,
           block |-> 0, ok |-> TRUE, result |-> 0]

-----------------------------------------------------------------------------
(* tracker/database.rs: SqliteDatabase *)

RECURSIVE CountTx(_, _)
\* SELECT COUNT(*) FROM <table> WHERE tx_hash = ?
CountTx(table, tx_hash) ==
    IF table = << >> THEN 0
    ELSE (IF Head(table).tx_hash = tx_hash THEN 1 ELSE 0) + CountTx(Tail(table), tx_hash)

\* the row SqliteDatabase::new inserts for the cursor
MonitoringState(initial_block) ==
    [tx_hash |-> "monitoring_state", batcher_address |-> "monitoring_state",
     analysis_result |-> EmptyJson, timestamp |-> STATE_ROW_TIMESTAMP,
     last_analyzed_block |-> initial_block]

is_tx_already_tracked(tx_hash) == CountTx(l2_batches_txs, tx_hash) > 0

is_tx_in_failed_queue(tx_hash) == CountTx(failed_transactions, tx_hash) > 0

\* variant of UniqueViolation: the column is declared without UNIQUE
UniqueViolation_None(table, tx_hash) == FALSE

\* tx_hash TEXT NOT NULL UNIQUE
UniqueViolation(table, tx_hash) == CountTx(table, tx_hash) > 0

\* variant of SqliteDatabase_new: INSERT OR REPLACE of the cursor's row
SqliteDatabase_new_Replace(initial_block) ==
    LET Other(row) == row.tx_hash # "monitoring_state"
    IN Append(SelectSeq(l2_batches_txs, Other), MonitoringState(initial_block))

\* SqliteDatabase::new: CREATE TABLE IF NOT EXISTS of the two tables, then
\* INSERT OR IGNORE of the cursor's row with initial_block
SqliteDatabase_new(initial_block) ==
    IF UniqueViolation(l2_batches_txs, "monitoring_state")
    THEN l2_batches_txs
    ELSE Append(l2_batches_txs, MonitoringState(initial_block))

\* variant of save_tracked_batch: the analysis_result column is bound to '{}'
save_tracked_batch_EmptyResult(batch) ==
    Append(l2_batches_txs,
           [tx_hash |-> batch.tx_hash,
            batcher_address |-> to_lowercase(batch.batcher_address),
            analysis_result |-> EmptyJson,
            timestamp |-> batch.timestamp,
            last_analyzed_block |-> NULL])

\* INSERT INTO l2_batches_txs (...) VALUES (?, ?, ?, ?, NULL)
save_tracked_batch(batch) ==
    Append(l2_batches_txs,
           [tx_hash |-> batch.tx_hash,
            batcher_address |-> to_lowercase(batch.batcher_address),
            analysis_result |-> batch.analysis_result,
            timestamp |-> batch.timestamp,
            last_analyzed_block |-> NULL])

\* SELECT last_analyzed_block ... WHERE tx_hash = 'monitoring_state'
get_last_analyzed_block ==
    LET i == CHOOSE i \in DOMAIN l2_batches_txs :
                 l2_batches_txs[i].tx_hash = "monitoring_state"
    IN l2_batches_txs[i].last_analyzed_block

\* variant of update_last_analyzed_block: the stored block is never lowered
update_last_analyzed_block_Max(block_number) ==
    [i \in DOMAIN l2_batches_txs |->
        IF l2_batches_txs[i].tx_hash = "monitoring_state"
              /\ l2_batches_txs[i].last_analyzed_block < block_number
        THEN [l2_batches_txs[i] EXCEPT !.last_analyzed_block = block_number]
        ELSE l2_batches_txs[i]]

\* variant of update_last_analyzed_block: the UPDATE has no WHERE clause
update_last_analyzed_block_AllRows(block_number) ==
    [i \in DOMAIN l2_batches_txs |->
        [l2_batches_txs[i] EXCEPT !.last_analyzed_block = block_number]]

\* UPDATE l2_batches_txs SET last_analyzed_block = ? WHERE tx_hash = 'monitoring_state'
update_last_analyzed_block(block_number) ==
    [i \in DOMAIN l2_batches_txs |->
        IF l2_batches_txs[i].tx_hash = "monitoring_state"
        THEN [l2_batches_txs[i] EXCEPT !.last_analyzed_block = block_number]
        ELSE l2_batches_txs[i]]

\* INSERT INTO failed_transactions (...)
save_failed_transaction(failed_tx) ==
    Append(failed_transactions,
           [failed_tx EXCEPT !.batcher_address = to_lowercase(failed_tx.batcher_address)])

RECURSIVE InsertSorted(_, _)
\* e placed after the rows of the sorted list whose next_retry_at is not later
InsertSorted(e, sorted) ==
    IF sorted = << >> THEN << e >>
    ELSE IF Head(sorted).next_retry_at <= e.next_retry_at
         THEN << Head(sorted) >> \o InsertSorted(e, Tail(sorted))
         ELSE << e >> \o sorted

RECURSIVE OrderByNextRetryAt(_)
OrderByNextRetryAt(rows) ==
    IF rows = << >> THEN << >>
    ELSE InsertSorted(rows[Len(rows)], OrderByNextRetryAt(SubSeq(rows, 1, Len(rows) - 1)))

\* variant of ReadyForRetry: the SELECT has no WHERE clause
ReadyForRetry_All(row) == TRUE

\* WHERE next_retry_at <= ? bound to the current time
ReadyForRetry(row) == row.next_retry_at <= now

\* SELECT ... FROM failed_transactions WHERE next_retry_at <= ? ORDER BY next_retry_at
get_failed_transactions_ready_for_retry ==
    OrderByNextRetryAt(SelectSeq(failed_transactions, ReadyForRetry))

\* variant of update_failed_transaction_retry: last_attempted_at is not in the SET list
update_failed_transaction_retry_KeepAttempted(tx_hash, retry_count, next_retry_at, error_message) ==
    [i \in DOMAIN failed_transactions |->
        IF failed_transactions[i].tx_hash = tx_hash
        THEN [failed_transactions[i] EXCEPT !.retry_count = retry_count,
                                            !.next_retry_at = next_retry_at,
                                            !.error_message = error_message]
        ELSE failed_transactions[i]]

\* variant of update_failed_transaction_retry: the UPDATE has no WHERE clause
update_failed_transaction_retry_AllRows(tx_hash, retry_count, next_retry_at, error_message) ==
    [i \in DOMAIN failed_transactions |->
        [failed_transactions[i] EXCEPT !.retry_count = retry_count,
                                       !.next_retry_at = next_retry_at,
                                       !.error_message = error_message,
                                       !.last_attempted_at = now]]

\* UPDATE failed_transactions SET retry_count, next_retry_at, error_message,
\* last_attempted_at WHERE tx_hash = ?
update_failed_transaction_retry(tx_hash, retry_count, next_retry_at, error_message) ==
    [i \in DOMAIN failed_transactions |->
        IF failed_transactions[i].tx_hash = tx_hash
        THEN [failed_transactions[i] EXCEPT !.retry_count = retry_count,
                                            !.next_retry_at = next_retry_at,
                                            !.error_message = error_message,
                                            !.last_attempted_at = now]
        ELSE failed_transactions[i]]

\* variant of remove_failed_transaction: the DELETE matches no row
remove_failed_transaction_NoRows(tx_hash) == failed_transactions

\* DELETE FROM failed_transactions WHERE tx_hash = ?
remove_failed_transaction(tx_hash) ==
    LET Other(row) == row.tx_hash # tx_hash
    IN SelectSeq(failed_transactions, Other)

-----------------------------------------------------------------------------
(* tracker/retry_handler.rs: RetryHandler *)

RECURSIVE Pow2(_)
\* 2_u64.pow(n)
Pow2(n) == IF n = 0 THEN 1 ELSE 2 * Pow2(n - 1)

Min(a, b) == IF a <= b THEN a ELSE b
Max(a, b) == IF a >= b THEN a ELSE b

\* variant of calculate_next_retry_time: the delay grows linearly
calculate_next_retry_time_Linear(retry_count) ==
    now + Min(BASE_RETRY_DELAY * (retry_count + 1), MAX_RETRY_DELAY)

\* fn calculate_next_retry_time(retry_count: i32) -> i64
calculate_next_retry_time(retry_count) ==
    LET delay == BASE_RETRY_DELAY * Pow2(retry_count)
        capped_delay == Min(delay, MAX_RETRY_DELAY)
        current_time == now
    IN current_time + capped_delay

\* the history counter of analysis failures, one more for tx_hash
RecordFailure(tx_hash) ==
    [failures EXCEPT ![tx_hash] = Min(@ + 1, MaxFailures)]

\* variant of ExceededMaxAttempts: > for >=
ExceededMaxAttempts_Strict(failed_tx) == failed_tx.retry_count > MAX_RETRY_ATTEMPTS

\* variant of ExceededMaxAttempts: no entry is ever given up
ExceededMaxAttempts_Never(failed_tx) == FALSE

\* failed_tx.retry_count >= MAX_RETRY_ATTEMPTS
ExceededMaxAttempts(failed_tx) == failed_tx.retry_count >= MAX_RETRY_ATTEMPTS

\* store and provider calls can fail while the budget of faults lasts
Outcomes == IF faults < MaxFaults THEN BOOLEAN ELSE { TRUE }

\* one more fault when the call returned Err
Charge(ok) == faults' = IF ok THEN faults ELSE faults + 1

\* variant of RetryNext: the pass returns after its first entry
RetryNext_FirstOnly(queue) ==
    IF queue = << >> \/ r_tx # NoFailedTx
    THEN /\ r_pc' = "sleep"
         /\ r_tx' = NoFailedTx
         /\ r_queue' = << >>
    ELSE /\ r_tx' = Head(queue)
         /\ r_queue' = Tail(queue)
         /\ r_pc' = IF ExceededMaxAttempts(Head(queue))
                    THEN "evict" ELSE "retry_transaction_analysis"

\* the head of `for failed_tx in failed_transactions`, and the return after the
\* last entry to the 30 s sleep of start_retry_loop
RetryNext(queue) ==
    IF queue = << >>
    THEN /\ r_pc' = "sleep"
         /\ r_tx' = NoFailedTx
         /\ r_queue' = << >>
    ELSE /\ r_tx' = Head(queue)
         /\ r_queue' = Tail(queue)
         /\ r_pc' = IF ExceededMaxAttempts(Head(queue))
                    THEN "evict" ELSE "retry_transaction_analysis"

\* select! in run_l2_batches_monitoring_service: the retry loop is dropped
\* when start_monitoring returns
Running == s_pc # "returned"

\* self.db.get_failed_transactions_ready_for_retry().await?
R_GetReady ==
    /\ Running
    /\ r_pc = "sleep"
    /\ \E ok \in Outcomes :
          /\ Charge(ok)
          /\ IF ok THEN RetryNext(get_failed_transactions_ready_for_retry)
                   ELSE UNCHANGED << r_pc, r_tx, r_queue >>
    /\ UNCHANGED << store_vars, now, scanner_vars, r_batch, r_update, r_outcome,
                    ghost_vars >>
    /\ UNCHANGED << snapshot_vars, client_vars >>

\* the arguments of update_failed_transaction_retry after a failed attempt
NextRetry(failed_tx, error_message) ==
    LET next_retry_count == failed_tx.retry_count + 1
    IN [retry_count |-> next_retry_count,
        next_retry_at |-> calculate_next_retry_time(next_retry_count),
        error_message |-> error_message]

\* TrackedBatch { tx_hash, batcher_address, analysis_result, timestamp: now }
TrackedBatch(tx_hash, batcher_address, analysis_result) ==
    [tx_hash |-> tx_hash, batcher_address |-> batcher_address,
     analysis_result |-> analysis_result, timestamp |-> now]

\* self.retry_transaction_analysis(&failed_tx).await
R_RetryTransactionAnalysis ==
    /\ Running
    /\ r_pc = "retry_transaction_analysis"
    /\ \/ \E analysis \in AnalysisResults :
            /\ FromHex(r_tx.tx_hash) # -1
            /\ r_batch' = TrackedBatch(r_tx.tx_hash, r_tx.batcher_address,
                                       to_string(analysis))
            /\ r_pc' = "save_tracked_batch"
            /\ UNCHANGED << r_update, failures >>
       \/ \E e \in AnalysisErrors :
            /\ r_update' = NextRetry(r_tx, IF FromHex(r_tx.tx_hash) = -1
                                           THEN "Failed to parse transaction hash"
                                           ELSE e)
            /\ r_pc' = "update_failed_transaction_retry"
            /\ failures' = RecordFailure(r_tx.tx_hash)
            /\ UNCHANGED r_batch
    /\ UNCHANGED << store_vars, now, scanner_vars, r_tx, r_queue, r_outcome,
                    s_returned, observed_max, faults >>
    /\ UNCHANGED << snapshot_vars, client_vars >>

\* variant of AfterRetrySave: the entry is removed whatever the save returned
AfterRetrySave_AlwaysRemove(saved) == "remove_failed_transaction"

\* where process_retry_queue goes after save_tracked_batch returned
AfterRetrySave(saved) ==
    IF saved THEN "remove_failed_transaction" ELSE "update_failed_transaction_retry"

\* self.db.save_tracked_batch(&tracked_batch).await of process_retry_queue
R_SaveTrackedBatch ==
    /\ Running
    /\ r_pc = "save_tracked_batch"
    /\ \E ok \in Outcomes :
          LET saved == ok /\ ~UniqueViolation(l2_batches_txs, r_batch.tx_hash)
          IN /\ Charge(ok)
             /\ l2_batches_txs' = IF saved THEN save_tracked_batch(r_batch)
                                  ELSE l2_batches_txs
             /\ r_pc' = AfterRetrySave(saved)
             /\ r_update' = IF saved THEN NoUpdate
                            ELSE NextRetry(r_tx, "Database save error")
    /\ UNCHANGED << failed_transactions, now, scanner_vars, r_tx, r_queue, r_batch,
                    r_outcome, s_returned, observed_max, failures >>
    /\ UNCHANGED << snapshot_vars, client_vars >>

\* self.db.remove_failed_transaction(&failed_tx.tx_hash).await: of an entry
\* that exceeded the attempts (then `continue`), or after the save (then the delay)
R_RemoveFailedTransaction ==
    /\ Running
    /\ r_pc \in { "evict", "remove_failed_transaction" }
    /\ \E ok \in Outcomes :
          /\ Charge(ok)
          /\ failed_transactions' = IF ok THEN remove_failed_transaction(r_tx.tx_hash)
                                    ELSE failed_transactions
          /\ IF r_pc = "evict"
             THEN /\ RetryNext(r_queue)
                  /\ UNCHANGED r_outcome
             ELSE /\ r_pc' = "delay"
                  /\ r_outcome' =
                        IF ok THEN "Successfully processed and saved transaction"
                        ELSE "Failed to remove successfully processed transaction"
                  /\ UNCHANGED << r_tx, r_queue >>
    /\ UNCHANGED << l2_batches_txs, now, scanner_vars, r_batch, r_update,
                    ghost_vars >>
    /\ UNCHANGED << snapshot_vars, client_vars >>

\* self.db.update_failed_transaction_retry(...).await of process_retry_queue
R_UpdateFailedTransactionRetry ==
    /\ Running
    /\ r_pc = "update_failed_transaction_retry"
    /\ \E ok \in Outcomes :
          /\ Charge(ok)
          /\ failed_transactions' =
                IF ok THEN update_failed_transaction_retry(r_tx.tx_hash,
                               r_update.retry_count, r_update.next_retry_at,
                               r_update.error_message)
                ELSE failed_transactions
          /\ r_outcome' = IF ok THEN "scheduled for retry"
                          ELSE "Failed to update retry info"
    /\ r_pc' = "delay"
    /\ UNCHANGED << l2_batches_txs, now, scanner_vars, r_tx, r_queue, r_batch,
                    r_update, s_returned, observed_max, failures >>
    /\ UNCHANGED << snapshot_vars, client_vars >>

\* tokio::time::sleep(Duration::from_millis(500)).await, then the next entry
R_Delay ==
    /\ Running
    /\ r_pc = "delay"
    /\ RetryNext(r_queue)
    /\ r_batch' = NoBatch
    /\ r_update' = NoUpdate
    /\ r_outcome' = "-"
    /\ UNCHANGED << store_vars, now, scanner_vars, history_vars >>
    /\ UNCHANGED << snapshot_vars, client_vars >>

RetryStep ==
    \/ R_GetReady
    \/ R_RetryTransactionAnalysis
    \/ R_SaveTrackedBatch
    \/ R_RemoveFailedTransaction
    \/ R_UpdateFailedTransactionRetry
    \/ R_Delay

-----------------------------------------------------------------------------
(* tracker/l2_monitor.rs: start_monitoring *)

\* the Scanner's locals with nothing in them
ClearTx ==
    /\ s_batch' = NoBatch
    /\ sf_args' = NoArgs
    /\ sf_current_time' = 0
    /\ sf_failed_tx' = NoFailedTx

\* `continue` and the ends of the two for loops: the next transaction of the
\* response, else the next batcher address, else the cursor update
ScannerNext(response, addr) ==
    IF response # << >>
    THEN /\ s_tx' = FormatHash(Head(response))
         /\ s_response' = Tail(response)
         /\ s_addr' = addr
         /\ s_pc' = "is_tx_already_tracked"
    ELSE /\ s_tx' = NoTx
         /\ s_response' = << >>
         /\ IF addr < Len(L2_BATCHERS_ADDRESSES)
            THEN s_addr' = addr + 1 /\ s_pc' = "get_normal_txs"
            ELSE s_addr' = 0 /\ s_pc' = "update_last_analyzed_block"

\* variant of ScannerReturn: the error is logged and the cycle abandoned for
\* the next one
ScannerReturn_NextCycle ==
    /\ s_pc' = "sleep"
    /\ s_outcome' = "L2 monitor error"
    /\ s_tx' = NoTx
    /\ s_response' = << >>
    /\ s_addr' = 0
    /\ ClearTx

\* start_monitoring returns Err through `?`
ScannerReturn ==
    /\ s_pc' = "returned"
    /\ s_outcome' = "L2 monitor error"
    /\ s_tx' = NoTx
    /\ s_response' = << >>
    /\ s_addr' = 0
    /\ ClearTx

\* let start_block = db.get_last_analyzed_block().await? + 1
S_GetLastAnalyzedBlock ==
    /\ s_pc = "sleep"
    /\ \E ok \in Outcomes :
          /\ Charge(ok)
          /\ IF ok
             THEN /\ start_block' = get_last_analyzed_block + 1
                  /\ s_pc' = "get_block_number"
                  /\ s_outcome' = "-"
                  /\ UNCHANGED << s_tx, s_response, s_addr, s_batch, sf_args,
                                  sf_current_time, sf_failed_tx >>
             ELSE /\ ScannerReturn
                  /\ UNCHANGED start_block
    /\ s_returned' = {}
    /\ UNCHANGED << store_vars, now, current_block, sf_return, retry_vars,
                    observed_max, failures >>
    /\ UNCHANGED << snapshot_vars, client_vars >>

\* let current_block = provider_state.ethereum_provider.get_block_number().await?
S_GetBlockNumber(chain) ==
    /\ s_pc = "get_block_number"
    /\ \E ok \in Outcomes :
          /\ Charge(ok)
          /\ IF ok
             THEN /\ \E head \in Heads(chain) : current_block' = head
                  /\ s_pc' = "get_normal_txs"
                  /\ s_addr' = 1
                  /\ s_outcome' = "-"
                  /\ UNCHANGED << s_tx, s_response, s_batch, sf_args, sf_current_time,
                                  sf_failed_tx >>
             ELSE /\ ScannerReturn
                  /\ UNCHANGED current_block
    /\ UNCHANGED << store_vars, now, start_block, sf_return, retry_vars, s_returned,
                    observed_max, failures >>
    /\ UNCHANGED << snapshot_vars, client_vars >>

\* etherscan_provider.get_normal_txs(batcher_address, start_block, current_block, 10)
S_GetNormalTxs(chain) ==
    /\ s_pc = "get_normal_txs"
    /\ \E ok \in Outcomes :
          LET response == IF ok THEN get_normal_txs(chain, L2_BATCHERS_ADDRESSES[s_addr],
                                         start_block, current_block, PAGE_SIZE)
                          ELSE << >>
          IN /\ Charge(ok)
             /\ ScannerNext(response, s_addr)
             /\ s_returned' = s_returned \cup
                               { FormatHash(response[i]) : i \in DOMAIN response }
             /\ s_outcome' = IF ok THEN "-" ELSE "Error fetching transactions for address"
    /\ UNCHANGED << store_vars, now, start_block, current_block, s_batch, sf_args,
                    sf_current_time, sf_failed_tx, sf_return, retry_vars,
                    observed_max, failures >>
    /\ UNCHANGED << snapshot_vars, client_vars >>

\* variant of SkipIfTracked: the result of the check is ignored
SkipIfTracked_Never(tracked) ==
    /\ s_pc' = "is_tx_in_failed_queue"
    /\ s_outcome' = "-"
    /\ UNCHANGED << s_tx, s_response, s_addr >>

\* if db.is_tx_already_tracked(&tx_hash).await? { continue; }
SkipIfTracked(tracked) ==
    IF tracked
    THEN /\ ScannerNext(s_response, s_addr)
         /\ s_outcome' = "Skipping already tracked transaction"
    ELSE /\ s_pc' = "is_tx_in_failed_queue"
         /\ s_outcome' = "-"
         /\ UNCHANGED << s_tx, s_response, s_addr >>

S_IsTxAlreadyTracked ==
    /\ s_pc = "is_tx_already_tracked"
    /\ \E ok \in Outcomes :
          /\ Charge(ok)
          /\ IF ok
             THEN /\ SkipIfTracked(is_tx_already_tracked(s_tx))
                  /\ UNCHANGED << s_batch, sf_args, sf_current_time, sf_failed_tx >>
             ELSE ScannerReturn
    /\ UNCHANGED << store_vars, now, start_block, current_block, sf_return,
                    retry_vars, s_returned, observed_max, failures >>
    /\ UNCHANGED << snapshot_vars, client_vars >>

\* if db.is_tx_in_failed_queue(&tx_hash).await? { continue; }
SkipIfQueued(queued) ==
    IF queued
    THEN /\ ScannerNext(s_response, s_addr)
         /\ s_outcome' = "Skipping transaction already in retry queue"
    ELSE /\ s_pc' = "analyze_transaction"
         /\ s_outcome' = "-"
         /\ UNCHANGED << s_tx, s_response, s_addr >>

S_IsTxInFailedQueue ==
    /\ s_pc = "is_tx_in_failed_queue"
    /\ \E ok \in Outcomes :
          /\ Charge(ok)
          /\ IF ok
             THEN /\ SkipIfQueued(is_tx_in_failed_queue(s_tx))
                  /\ UNCHANGED << s_batch, sf_args, sf_current_time, sf_failed_tx >>
             ELSE ScannerReturn
    /\ UNCHANGED << store_vars, now, start_block, current_block, sf_return,
                    retry_vars, s_returned, observed_max, failures >>
    /\ UNCHANGED << snapshot_vars, client_vars >>

\* crate::server::handlers::analyze_transaction(&provider_state, tx_hash_bytes).await
\* and, on Err, the entry of retry_handler.save_failed_transaction
S_AnalyzeTransaction ==
    /\ s_pc = "analyze_transaction"
    /\ \/ \E analysis \in AnalysisResults :
            /\ s_batch' = TrackedBatch(s_tx, FormatAddress(L2_BATCHERS_ADDRESSES[s_addr]),
                                       to_string(analysis))
            /\ s_pc' = "save_tracked_batch"
            /\ s_outcome' = "-"
            /\ UNCHANGED << sf_args, sf_current_time, sf_return, failures,
                            s_tx, s_response, s_addr, sf_failed_tx, faults >>
       \/ \E e \in AnalysisErrors :
            /\ sf_args' = [tx_hash |-> s_tx,
                            batcher_address |->
                                FormatAddress(L2_BATCHERS_ADDRESSES[s_addr]),
                            error_message |-> e]
            /\ sf_current_time' = now
            /\ sf_return' = "start_monitoring"
            /\ s_pc' = "sf_is_tx_in_failed_queue"
            /\ s_outcome' = "-"
            /\ failures' = RecordFailure(s_tx)
            /\ UNCHANGED << s_batch, s_tx, s_response, s_addr, sf_failed_tx, faults >>
       \/ \* Ok(analysis) and serde_json::to_string(&analysis) returns Err: `?`
          /\ faults < MaxFaults
          /\ faults' = faults + 1
          /\ ScannerReturn
          /\ UNCHANGED << sf_return, failures >>
    /\ UNCHANGED << store_vars, now, start_block, current_block, retry_vars,
                    s_returned, observed_max >>
    /\ UNCHANGED << snapshot_vars, client_vars >>

\* if let Err(e) = db.save_tracked_batch(&tracked_batch).await
S_SaveTrackedBatch ==
    /\ s_pc = "save_tracked_batch"
    /\ \E ok \in Outcomes :
          LET saved == ok /\ ~UniqueViolation(l2_batches_txs, s_batch.tx_hash)
          IN /\ Charge(ok)
             /\ l2_batches_txs' = IF saved THEN save_tracked_batch(s_batch)
                                  ELSE l2_batches_txs
             /\ s_outcome' = IF saved THEN "Successfully saved transaction"
                             ELSE "Failed to save transaction"
    /\ ScannerNext(s_response, s_addr)
    /\ ClearTx
    /\ UNCHANGED << failed_transactions, now, start_block, current_block, sf_return,
                    retry_vars, s_returned, observed_max, failures >>
    /\ UNCHANGED << snapshot_vars, client_vars >>

\* if let Err(e) = db.update_last_analyzed_block(current_block).await, then the
\* 120 s sleep
S_UpdateLastAnalyzedBlock ==
    /\ s_pc = "update_last_analyzed_block"
    /\ \E ok \in Outcomes :
          /\ Charge(ok)
          /\ l2_batches_txs' = IF ok THEN update_last_analyzed_block(current_block)
                               ELSE l2_batches_txs
          /\ s_outcome' = IF ok THEN "Completed check"
                          ELSE "Failed to update last analyzed block"
          /\ observed_max' = IF ok THEN Max(observed_max, current_block)
                             ELSE observed_max
    /\ s_pc' = "sleep"
    /\ UNCHANGED << failed_transactions, now, start_block, current_block, s_addr,
                    s_response, s_tx, s_batch, sf_args, sf_current_time, sf_failed_tx,
                    sf_return, retry_vars, s_returned, failures >>
    /\ UNCHANGED << snapshot_vars, client_vars >>

-----------------------------------------------------------------------------
(* tracker/retry_handler.rs: RetryHandler::save_failed_transaction *)

\* save_failed_transaction returns to its caller: the Scanner logs an Err and
\* continues with the next transaction
SaveFailedReturn(outcome) ==
    /\ s_outcome' = outcome
    /\ ClearTx
    /\ IF sf_return = "start_monitoring"
       THEN ScannerNext(s_response, s_addr)
       ELSE /\ s_pc' = "caller"
            /\ UNCHANGED << s_tx, s_response, s_addr >>

\* variant of NewFailedTx: the update computes next_retry_at from retry_count 0
NewFailedTx_FromZero(tx_hash, batcher_address, error_message, current_time, queued) ==
    [tx_hash |-> tx_hash,
     batcher_address |-> batcher_address,
     error_message |-> error_message,
     retry_count |-> IF queued THEN 1 ELSE 0,
     next_retry_at |-> calculate_next_retry_time(0),
     first_failed_at |-> current_time,
     last_attempted_at |-> current_time]

\* variant of NewFailedTx: the update of a queued entry writes retry_count 0
NewFailedTx_CountZero(tx_hash, batcher_address, error_message, current_time, queued) ==
    [tx_hash |-> tx_hash,
     batcher_address |-> batcher_address,
     error_message |-> error_message,
     retry_count |-> 0,
     next_retry_at |-> calculate_next_retry_time(IF queued THEN 1 ELSE 0),
     first_failed_at |-> current_time,
     last_attempted_at |-> current_time]

\* the FailedTransaction built for the insert, and the arguments of the update
\* of an entry that is already queued
NewFailedTx(tx_hash, batcher_address, error_message, current_time, queued) ==
    [tx_hash |-> tx_hash,
     batcher_address |-> batcher_address,
     error_message |-> error_message,
     retry_count |-> IF queued THEN 1 ELSE 0,
     next_retry_at |-> calculate_next_retry_time(IF queued THEN 1 ELSE 0),
     first_failed_at |-> current_time,
     last_attempted_at |-> current_time]

\* if self.db.is_tx_in_failed_queue(tx_hash).await?
SaveFailed_IsTxInFailedQueue ==
    /\ s_pc = "sf_is_tx_in_failed_queue"
    /\ \E ok \in Outcomes :
          /\ Charge(ok)
          /\ IF ok
             THEN LET queued == is_tx_in_failed_queue(sf_args.tx_hash)
                  IN /\ sf_failed_tx' = NewFailedTx(sf_args.tx_hash,
                                          sf_args.batcher_address,
                                          sf_args.error_message, sf_current_time, queued)
                     /\ s_pc' = IF queued THEN "sf_update_failed_transaction_retry"
                                ELSE "sf_save_failed_transaction"
                     /\ UNCHANGED << s_tx, s_response, s_addr, s_batch, sf_args,
                                     sf_current_time, s_outcome >>
             ELSE SaveFailedReturn("Failed to save transaction to retry queue")
    /\ UNCHANGED << store_vars, now, start_block, current_block, sf_return,
                    retry_vars, s_returned, observed_max, failures >>
    /\ UNCHANGED << snapshot_vars, client_vars >>

\* self.db.update_failed_transaction_retry(tx_hash, 1, next_retry_at, error_message)
\* when the entry was found queued, else self.db.save_failed_transaction(&failed_tx)
SaveFailed_Write ==
    /\ s_pc \in { "sf_update_failed_transaction_retry", "sf_save_failed_transaction" }
    /\ \E ok \in Outcomes :
          /\ Charge(ok)
          /\ IF s_pc = "sf_update_failed_transaction_retry"
             THEN /\ failed_transactions' =
                        IF ok THEN update_failed_transaction_retry(sf_failed_tx.tx_hash,
                                       sf_failed_tx.retry_count,
                                       sf_failed_tx.next_retry_at,
                                       sf_failed_tx.error_message)
                        ELSE failed_transactions
                  /\ SaveFailedReturn(
                        IF ok THEN "Updated existing failed transaction in retry queue"
                        ELSE "Failed to save transaction to retry queue")
             ELSE LET saved == ok /\ ~UniqueViolation(failed_transactions,
                                                      sf_failed_tx.tx_hash)
                  IN /\ failed_transactions' =
                           IF saved THEN save_failed_transaction(sf_failed_tx)
                           ELSE failed_transactions
                     /\ SaveFailedReturn(
                           IF saved THEN "Added new failed transaction to retry queue"
                           ELSE "Failed to save transaction to retry queue")
    /\ UNCHANGED << l2_batches_txs, now, start_block, current_block, sf_return,
                    retry_vars, s_returned, observed_max, failures >>
    /\ UNCHANGED << snapshot_vars, client_vars >>

SaveFailedStep ==
    \/ SaveFailed_IsTxInFailedQueue
    \/ SaveFailed_Write

ScannerStep(chain) ==
    \/ S_GetLastAnalyzedBlock
    \/ S_GetBlockNumber(chain)
    \/ S_GetNormalTxs(chain)
    \/ S_IsTxAlreadyTracked
    \/ S_IsTxInFailedQueue
    \/ S_AnalyzeTransaction
    \/ S_SaveTrackedBatch
    \/ S_UpdateLastAnalyzedBlock

-----------------------------------------------------------------------------
(* The clock *)

\* the next_retry_at values of the queue that lie in the future
Deadlines(horizon) ==
    { failed_transactions[i].next_retry_at : i \in DOMAIN failed_transactions }
        \cap (now + 1 .. horizon)

\* SystemTime::now() advances: to the next instant at which an entry gets ready
Tick(horizon) ==
    /\ Running
    /\ Deadlines(horizon) # {}
    /\ now' = CHOOSE d \in Deadlines(horizon) : \A e \in Deadlines(horizon) : d <= e
    /\ UNCHANGED << store_vars, scanner_vars, retry_vars, history_vars >>
    /\ UNCHANGED << snapshot_vars, client_vars >>

-----------------------------------------------------------------------------
(* tracker/snapshot.rs and the aggregate queries of tracker/database.rs *)

\* seconds of a UTC day
DAY == 86400
\* period of the interval of start_snapshot_loop, in seconds
SNAPSHOT_INTERVAL == 86400

\* variant of day_start_ts: the instant itself, not aligned to midnight
day_start_ts_Unaligned(now_ts) == now_ts

\* variant of day_start_ts: the nearest midnight, not the last one
day_start_ts_Nearest(now_ts) == ((now_ts + DAY \div 2) \div DAY) * DAY

\* (now_ts / 86_400) * 86_400: midnight of the current day UTC
day_start_ts(now_ts) == (now_ts \div DAY) * DAY

\* day_start_ts - 1, with start_ts = day_start_ts - 86_400
end_ts == start_ts + DAY - 1

\* variant of InWindow: the WHERE clause without its upper bound
InWindow_NoUpperBound(row, start_timestamp, end_timestamp) ==
    /\ row.timestamp >= start_timestamp
    /\ row.tx_hash # "monitoring_state"

\* WHERE timestamp >= ? AND timestamp <= ? AND tx_hash != 'monitoring_state'
InWindow(row, start_timestamp, end_timestamp) ==
    /\ row.timestamp >= start_timestamp
    /\ row.timestamp <= end_timestamp
    /\ row.tx_hash # "monitoring_state"

\* the rows of l2_batches_txs the WHERE clause selects
WindowRows(start_timestamp, end_timestamp) ==
    { i \in DOMAIN l2_batches_txs :
          InWindow(l2_batches_txs[i], start_timestamp, end_timestamp) }

\* the selected rows of one batcher_address
RowsOfBatcher(rows, a) == { i \in rows : l2_batches_txs[i].batcher_address = a }

\* GROUP BY batcher_address, and the keys of the HashMap of the other queries
GroupBy(rows) == { l2_batches_txs[i].batcher_address : i \in rows }

\* += over the values of f
RECURSIVE Sum(_)
Sum(f) ==
    IF DOMAIN f = {} THEN 0
    ELSE LET i == CHOOSE j \in DOMAIN f : TRUE
         IN f[i] + Sum([j \in DOMAIN f \ {i} |-> f[j]])

\* serde_json::from_str::<serde_json::Value>(&analysis_result)
from_str(analysis_result) == analysis_result.json

\* analysis[key].as_u64().unwrap_or(0); a negative number stands for JSON null
as_u64_or_0(analysis, key) ==
    IF key \in DOMAIN analysis /\ analysis[key] >= 0 THEN analysis[key] ELSE 0

\* variant of saturating_sub: the signed difference
saturating_sub_Signed(a, b) == a - b

\* u128::saturating_sub
saturating_sub(a, b) == IF a >= b THEN a - b ELSE 0

\* eip_7623_calldata_wei_spent.saturating_sub(blob_data_wei_spent)
eth_saved_wei(analysis) ==
    saturating_sub(as_u64_or_0(analysis, "eip_7623_calldata_wei_spent"),
                   as_u64_or_0(analysis, "blob_data_wei_spent"))

\* SELECT batcher_address, COUNT(*) ... GROUP BY batcher_address
get_all_daily_transactions(start_timestamp, end_timestamp) ==
    LET rows == WindowRows(start_timestamp, end_timestamp)
    IN [a \in GroupBy(rows) |-> Cardinality(RowsOfBatcher(rows, a))]

\* the loop of the three queries that read analysis_result: per batcher_address
\* the sum of a value taken from the parsed JSON of each selected row
SumByBatcher(start_timestamp, end_timestamp, value) ==
    LET rows == WindowRows(start_timestamp, end_timestamp)
    IN [a \in GroupBy(rows) |-> Sum([i \in RowsOfBatcher(rows, a) |-> value[i]])]

get_all_eth_saved_data(start_timestamp, end_timestamp) ==
    SumByBatcher(start_timestamp, end_timestamp,
                 [i \in DOMAIN l2_batches_txs |->
                     eth_saved_wei(from_str(l2_batches_txs[i].analysis_result))])

get_all_total_blob_data_gas(start_timestamp, end_timestamp) ==
    SumByBatcher(start_timestamp, end_timestamp,
                 [i \in DOMAIN l2_batches_txs |->
                     as_u64_or_0(from_str(l2_batches_txs[i].analysis_result),
                                 "blob_gas_used")])

get_all_total_pectra_data_gas(start_timestamp, end_timestamp) ==
    SumByBatcher(start_timestamp, end_timestamp,
                 [i \in DOMAIN l2_batches_txs |->
                     as_u64_or_0(from_str(l2_batches_txs[i].analysis_result),
                                 "eip_7623_calldata_gas")])

\* variant of MatchesBatcher: the WHERE clause without the address
MatchesBatcher_AnyAddress(row, batcher_address) == TRUE

\* WHERE batcher_address = LOWER(?)
MatchesBatcher(row, batcher_address) == row.batcher_address = LOWER(batcher_address)

\* the rows the WHERE clause of the queries of one address selects
BatcherRows(batcher_address, start_timestamp, end_timestamp) ==
    { i \in WindowRows(start_timestamp, end_timestamp) :
          MatchesBatcher(l2_batches_txs[i], batcher_address) }

\* SELECT COUNT(*) ... WHERE batcher_address = LOWER(?) AND timestamp >= ? AND ...
get_daily_transactions(batcher_address, start_timestamp, end_timestamp) ==
    Cardinality(BatcherRows(batcher_address, start_timestamp, end_timestamp))

get_eth_saved_data(batcher_address, start_timestamp, end_timestamp) ==
    Sum([i \in BatcherRows(batcher_address, start_timestamp, end_timestamp) |->
            eth_saved_wei(from_str(l2_batches_txs[i].analysis_result))])

get_total_blob_data_gas(batcher_address, start_timestamp, end_timestamp) ==
    Sum([i \in BatcherRows(batcher_address, start_timestamp, end_timestamp) |->
            as_u64_or_0(from_str(l2_batches_txs[i].analysis_result), "blob_gas_used")])

get_total_pectra_data_gas(batcher_address, start_timestamp, end_timestamp) ==
    Sum([i \in BatcherRows(batcher_address, start_timestamp, end_timestamp) |->
            as_u64_or_0(from_str(l2_batches_txs[i].analysis_result),
                        "eip_7623_calldata_gas")])

\* map.entry(batcher_address).or_default(): a field no query set is 0
or_default(f, a) == IF a \in DOMAIN f THEN f[a] ELSE 0

\* stats_vec: one DailyBatcherStats for every key of the map
stats_vec ==
    { [batcher_address |-> a,
       snapshot_timestamp |-> start_ts,
       total_eth_saved_wei |-> or_default(eth_saved, a),
       total_daily_txs |-> or_default(daily_txs, a),
       total_blob_data_gas |-> or_default(blob_gas, a),
       total_pectra_data_gas |-> or_default(pectra_gas, a)] :
      a \in DOMAIN daily_txs \cup DOMAIN eth_saved \cup DOMAIN blob_gas
               \cup DOMAIN pectra_gas }

\* db.insert_daily_batcher_stats(&stats_vec): one write of the whole batch that
\* replaces the stored row of each (batcher_address, snapshot_timestamp)
insert_daily_batcher_stats(rows) ==
    { r \in daily_batcher_stats :
          ~\E n \in rows : /\ n.batcher_address = r.batcher_address
                           /\ n.snapshot_timestamp = r.snapshot_timestamp }
        \cup rows

\* history: the rows of l2_batches_txs stamped in the UTC day before the day of t
PreviousDayRows(t) ==
    { i \in DOMAIN l2_batches_txs :
          /\ l2_batches_txs[i].tx_hash # "monitoring_state"
          /\ l2_batches_txs[i].timestamp \div DAY = (t \div DAY) - 1 }

\* history: a call of create_and_save_snapshot made now
SnapshotCall ==
    [at |-> now, rows |-> Cardinality(PreviousDayRows(now)), saved |-> FALSE]

\* the locals of create_and_save_snapshot with nothing in them
ClearSnapshot ==
    /\ start_ts' = 0
    /\ daily_txs' = << >>
    /\ eth_saved' = << >>
    /\ blob_gas' = << >>
    /\ pectra_gas' = << >>

\* create_and_save_snapshot returns to start_snapshot_loop, which logs an Err;
\* after the initial call the interval is created, its first tick due at once
SnapshotReturn(saved) ==
    /\ sn_pc' = "tick"
    /\ interval' = IF interval = NULL THEN now ELSE interval
    /\ sn_history' = [sn_history EXCEPT ![Len(sn_history)].saved = saved]
    /\ ClearSnapshot

\* db.get_all_daily_transactions(start_ts, end_ts).await?
SN_GetAllDailyTransactions ==
    /\ sn_pc = "get_all_daily_transactions"
    /\ \E ok \in Outcomes :
          /\ Charge(ok)
          /\ IF ok
             THEN /\ daily_txs' = get_all_daily_transactions(start_ts, end_ts)
                  /\ sn_pc' = "get_all_eth_saved_data"
                  /\ UNCHANGED << start_ts, eth_saved, blob_gas, pectra_gas, interval,
                                  sn_history >>
             ELSE SnapshotReturn(FALSE)
    /\ UNCHANGED << store_vars, now, scanner_vars, retry_vars, ghost_vars,
                    daily_batcher_stats, w_batch >>
    /\ UNCHANGED client_vars

\* db.get_all_eth_saved_data(start_ts, end_ts).await?
SN_GetAllEthSavedData ==
    /\ sn_pc = "get_all_eth_saved_data"
    /\ \E ok \in Outcomes :
          /\ Charge(ok)
          /\ IF ok
             THEN /\ eth_saved' = get_all_eth_saved_data(start_ts, end_ts)
                  /\ sn_pc' = "get_all_total_blob_data_gas"
                  /\ UNCHANGED << start_ts, daily_txs, blob_gas, pectra_gas, interval,
                                  sn_history >>
             ELSE SnapshotReturn(FALSE)
    /\ UNCHANGED << store_vars, now, scanner_vars, retry_vars, ghost_vars,
                    daily_batcher_stats, w_batch >>
    /\ UNCHANGED client_vars

\* db.get_all_total_blob_data_gas(start_ts, end_ts).await?
SN_GetAllTotalBlobDataGas ==
    /\ sn_pc = "get_all_total_blob_data_gas"
    /\ \E ok \in Outcomes :
          /\ Charge(ok)
          /\ IF ok
             THEN /\ blob_gas' = get_all_total_blob_data_gas(start_ts, end_ts)
                  /\ sn_pc' = "get_all_total_pectra_data_gas"
                  /\ UNCHANGED << start_ts, daily_txs, eth_saved, pectra_gas, interval,
                                  sn_history >>
             ELSE SnapshotReturn(FALSE)
    /\ UNCHANGED << store_vars, now, scanner_vars, retry_vars, ghost_vars,
                    daily_batcher_stats, w_batch >>
    /\ UNCHANGED client_vars

\* variant of SN_GetAllTotalPectraDataGas: an Err is taken as an empty result
SN_GetAllTotalPectraDataGas_IgnoreErr ==
    /\ sn_pc = "get_all_total_pectra_data_gas"
    /\ \E ok \in Outcomes :
          /\ Charge(ok)
          /\ pectra_gas' = IF ok THEN get_all_total_pectra_data_gas(start_ts, end_ts)
                           ELSE << >>
          /\ sn_pc' = "insert_daily_batcher_stats"
          /\ UNCHANGED << start_ts, daily_txs, eth_saved, blob_gas, interval,
                          sn_history >>
    /\ UNCHANGED << store_vars, now, scanner_vars, retry_vars, ghost_vars,
                    daily_batcher_stats, w_batch >>
    /\ UNCHANGED client_vars

\* db.get_all_total_pectra_data_gas(start_ts, end_ts).await?
SN_GetAllTotalPectraDataGas ==
    /\ sn_pc = "get_all_total_pectra_data_gas"
    /\ \E ok \in Outcomes :
          /\ Charge(ok)
          /\ IF ok
             THEN /\ pectra_gas' = get_all_total_pectra_data_gas(start_ts, end_ts)
                  /\ sn_pc' = "insert_daily_batcher_stats"
                  /\ UNCHANGED << start_ts, daily_txs, eth_saved, blob_gas, interval,
                                  sn_history >>
             ELSE SnapshotReturn(FALSE)
    /\ UNCHANGED << store_vars, now, scanner_vars, retry_vars, ghost_vars,
                    daily_batcher_stats, w_batch >>
    /\ UNCHANGED client_vars

\* db.insert_daily_batcher_stats(&stats_vec).await?, after the map and
\* stats_vec are built
SN_InsertDailyBatcherStats ==
    /\ sn_pc = "insert_daily_batcher_stats"
    /\ \E ok \in Outcomes :
          /\ Charge(ok)
          /\ daily_batcher_stats' = IF ok THEN insert_daily_batcher_stats(stats_vec)
                                    ELSE daily_batcher_stats
          /\ SnapshotReturn(ok)
    /\ UNCHANGED << store_vars, now, scanner_vars, retry_vars, ghost_vars, w_batch >>
    /\ UNCHANGED client_vars

\* interval.tick().await completes and create_and_save_snapshot is called: it
\* computes its window from Utc::now() and is at its first await
SN_Tick ==
    /\ sn_pc = "tick"
    /\ now >= interval
    /\ interval' = interval + SNAPSHOT_INTERVAL
    /\ start_ts' = day_start_ts(now) - DAY
    /\ sn_pc' = "get_all_daily_transactions"
    /\ sn_history' = Append(sn_history, SnapshotCall)
    /\ UNCHANGED << store_vars, now, scanner_vars, retry_vars, history_vars,
                    daily_batcher_stats, daily_txs, eth_saved, blob_gas, pectra_gas,
                    w_batch >>
    /\ UNCHANGED client_vars

SnapshotStep ==
    \/ SN_GetAllDailyTransactions
    \/ SN_GetAllEthSavedData
    \/ SN_GetAllTotalBlobDataGas
    \/ SN_GetAllTotalPectraDataGas
    \/ SN_InsertDailyBatcherStats
    \/ SN_Tick

\* tx hashes of transactions analysed while the snapshot task runs
NewHashes == { "0xc" }

\* a task that stores rows builds its TrackedBatch, stamped SystemTime::now()
W_TrackedBatch ==
    /\ w_batch = NoBatch
    /\ \E tx_hash \in NewHashes, i \in DOMAIN L2_BATCHERS_ADDRESSES,
          analysis \in AnalysisResults :
          /\ ~is_tx_already_tracked(tx_hash)
          /\ w_batch' = TrackedBatch(tx_hash, FormatAddress(L2_BATCHERS_ADDRESSES[i]),
                                     to_string(analysis))
    /\ UNCHANGED << store_vars, now, scanner_vars, retry_vars, history_vars,
                    daily_batcher_stats, sn_pc, start_ts, daily_txs, eth_saved,
                    blob_gas, pectra_gas, interval, sn_history >>
    /\ UNCHANGED client_vars

\* db.save_tracked_batch(&tracked_batch).await of that task
W_SaveTrackedBatch ==
    /\ w_batch # NoBatch
    /\ l2_batches_txs' = IF UniqueViolation(l2_batches_txs, w_batch.tx_hash)
                         THEN l2_batches_txs
                         ELSE save_tracked_batch(w_batch)
    /\ w_batch' = NoBatch
    /\ UNCHANGED << failed_transactions, now, scanner_vars, retry_vars, history_vars,
                    daily_batcher_stats, sn_pc, start_ts, daily_txs, eth_saved,
                    blob_gas, pectra_gas, interval, sn_history >>
    /\ UNCHANGED client_vars

\* the instants the clock of the snapshot runs stops at: the next tick of the
\* interval, the last second of the day and the next midnight
SnapshotDeadlines(horizon) ==
    { interval, (now \div DAY) * DAY + DAY - 1, (now \div DAY) * DAY + DAY }
        \cap (now + 1 .. horizon)

\* Utc::now() advances to the next of these instants
TickSnapshot(horizon) ==
    /\ SnapshotDeadlines(horizon) # {}
    /\ now' = CHOOSE d \in SnapshotDeadlines(horizon) :
                  \A e \in SnapshotDeadlines(horizon) : d <= e
    /\ UNCHANGED << store_vars, scanner_vars, retry_vars, history_vars, snapshot_vars,
                    client_vars >>

-----------------------------------------------------------------------------
(* The service: main.rs *)

\* every local empty, and the histories but the count of failed calls
InitTasks ==
    /\ start_block = 0
    /\ current_block = 0
    /\ s_addr = 0
    /\ s_response = << >>
    /\ s_tx = NoTx
    /\ s_batch = NoBatch
    /\ sf_args = NoArgs
    /\ sf_current_time = 0
    /\ sf_failed_tx = NoFailedTx
    /\ s_outcome = "-"
    /\ r_pc = "sleep"
    /\ r_queue = << >>
    /\ r_tx = NoFailedTx
    /\ r_batch = NoBatch
    /\ r_update = NoUpdate
    /\ r_outcome = "-"
    /\ s_returned = {}
    /\ observed_max = -1
    /\ failures = [t \in TxHashes |-> 0]
    /\ daily_batcher_stats = {}
    /\ daily_txs = << >>
    /\ eth_saved = << >>
    /\ blob_gas = << >>
    /\ pectra_gas = << >>
    /\ interval = NULL
    /\ w_batch = NoBatch
    /\ db_call = NoCall

\* every local empty, and no call has failed
InitProcess ==
    /\ InitTasks
    /\ faults = 0

\* the locals of the tasks, and no failed transaction stored
InitLocals ==
    /\ failed_transactions = << >>
    /\ InitProcess

\* SqliteDatabase::new(DB_PATH, current_block) on an empty file; main.rs does not
\* start the snapshot task
InitStore ==
    /\ l2_batches_txs = << MonitoringState(INITIAL_BLOCK) >>
    /\ now = 0
    /\ InitLocals
    /\ start_ts = 0
    /\ sn_pc = "-"
    /\ sn_history = << >>

\* run_l2_batches_monitoring_service: start_monitoring and start_retry_loop
Init ==
    /\ InitStore
    /\ s_pc = "sleep"
    /\ sf_return = "start_monitoring"

Next(horizon, chain) ==
    \/ ScannerStep(chain)
    \/ SaveFailedStep
    \/ RetryStep
    \/ Tick(horizon)

\* the service on the whole chain
Spec == Init /\ [][Next(MaxTime, ChainTxs)]_vars

\* the service on a chain of one transaction, long enough for the retry limit
SpecLimit == Init /\ [][Next(MaxTimeLimit, ShortChain)]_vars

\* the service when no store or provider call fails: the budget of failed
\* calls is spent from the start
InitLive ==
    /\ l2_batches_txs = << MonitoringState(INITIAL_BLOCK) >>
    /\ failed_transactions = << >>
    /\ now = 0
    /\ InitTasks
    /\ faults = MaxFaults
    /\ start_ts = 0
    /\ sn_pc = "-"
    /\ sn_history = << >>
    /\ s_pc = "sleep"
    /\ sf_return = "start_monitoring"

\* the runtime keeps polling start_retry_loop, and the clock advances
LoopRunsAndTimeAdvances ==
    /\ WF_vars(RetryStep)
    /\ WF_vars(Tick(MaxTimeLimit))

\* the service on a chain of one transaction, with its retry loop scheduled
\* and the clock advancing
SpecLive ==
    /\ InitLive
    /\ [][Next(MaxTimeLimit, ShortChain)]_vars
    /\ LoopRunsAndTimeAdvances

-----------------------------------------------------------------------------
(* RetryHandler as a library: a caller of the pub fn save_failed_transaction *)

\* retry_handler.save_failed_transaction(tx_hash, batcher_address, error_message)
Call_SaveFailedTransaction(chain) ==
    /\ s_pc = "caller"
    /\ \E tx_hash \in Hashes(chain), i \in DOMAIN L2_BATCHERS_ADDRESSES, e \in AnalysisErrors :
          sf_args' = [tx_hash |-> tx_hash,
                      batcher_address |-> L2_BATCHERS_ADDRESSES[i],
                      error_message |-> e]
    /\ sf_current_time' = now
    /\ s_pc' = "sf_is_tx_in_failed_queue"
    /\ s_outcome' = "-"
    /\ UNCHANGED << store_vars, now, start_block, current_block, s_addr, s_response,
                    s_tx, s_batch, sf_failed_tx, sf_return, retry_vars, history_vars >>
    /\ UNCHANGED << snapshot_vars, client_vars >>

InitApi ==
    /\ InitStore
    /\ s_pc = "caller"
    /\ sf_return = "caller"

NextApi ==
    \/ Call_SaveFailedTransaction(ShortChain)
    \/ SaveFailedStep
    \/ RetryStep
    \/ Tick(MaxTimeApi)

SpecApi == InitApi /\ [][NextApi]_vars

-----------------------------------------------------------------------------
(* start_snapshot_loop on a store that holds rows *)

\* rows l2_batches_txs can hold when the task starts: of each batcher three
\* stamped in the day before the start and one stamped next to that day
StoredRows ==
    << [tx_hash |-> "0x1", batcher_address |-> to_lowercase(BASE), timestamp |-> DAY - 1,
        analysis_result |-> to_string([blob_gas_used |-> 2, eip_7623_calldata_gas |-> 1,
            blob_data_wei_spent |-> 7, eip_7623_calldata_wei_spent |-> 3]),
        last_analyzed_block |-> NULL],
       [tx_hash |-> "0x2", batcher_address |-> to_lowercase(BASE), timestamp |-> DAY,
        analysis_result |-> to_string([blob_gas_used |-> 1, eip_7623_calldata_gas |-> 4,
            blob_data_wei_spent |-> 2, eip_7623_calldata_wei_spent |-> 5]),
        last_analyzed_block |-> NULL],
       [tx_hash |-> "0x3", batcher_address |-> to_lowercase(OPTIMISM), timestamp |-> DAY,
        analysis_result |-> to_string([blob_gas_used |-> 2, eip_7623_calldata_gas |-> 1,
            blob_data_wei_spent |-> 7, eip_7623_calldata_wei_spent |-> 3]),
        last_analyzed_block |-> NULL],
       [tx_hash |-> "0x4", batcher_address |-> to_lowercase(BASE), timestamp |-> DAY + 5,
        analysis_result |-> to_string([blob_gas_used |-> 2, eip_7623_calldata_gas |-> 1,
            blob_data_wei_spent |-> 7, eip_7623_calldata_wei_spent |-> 3]),
        last_analyzed_block |-> NULL],
       [tx_hash |-> "0x5", batcher_address |-> to_lowercase(OPTIMISM), timestamp |-> DAY + 5,
        analysis_result |-> to_string([blob_gas_used |-> 0, eip_7623_calldata_gas |-> 3,
            blob_data_wei_spent |-> NULL, eip_7623_calldata_wei_spent |-> 4]),
        last_analyzed_block |-> NULL],
       [tx_hash |-> "0x6", batcher_address |-> to_lowercase(BASE), timestamp |-> 2 * DAY - 1,
        analysis_result |-> to_string([blob_gas_used |-> 1, eip_7623_calldata_gas |-> 4,
            blob_data_wei_spent |-> 2, eip_7623_calldata_wei_spent |-> 5]),
        last_analyzed_block |-> NULL],
       [tx_hash |-> "0x7", batcher_address |-> to_lowercase(OPTIMISM), timestamp |-> 2 * DAY - 1,
        analysis_result |-> to_string([blob_gas_used |-> 1, eip_7623_calldata_gas |-> 4,
            blob_data_wei_spent |-> 2, eip_7623_calldata_wei_spent |-> 5]),
        last_analyzed_block |-> NULL],
       [tx_hash |-> "0x8", batcher_address |-> to_lowercase(OPTIMISM), timestamp |-> 2 * DAY,
        analysis_result |-> to_string([blob_gas_used |-> 1, eip_7623_calldata_gas |-> 4,
            blob_data_wei_spent |-> 2, eip_7623_calldata_wei_spent |-> 5]),
        last_analyzed_block |-> NULL] >>

\* the instants the task can be started at
StartTimes == { 2 * DAY + 10, 3 * DAY - 1 }

\* start_snapshot_loop(db) is called, on a store with the first n of the rows:
\* its initial create_and_save_snapshot has computed its window and is at its
\* first await
InitSnapshot ==
    /\ \E n \in 0 .. Len(StoredRows) :
          l2_batches_txs = << MonitoringState(INITIAL_BLOCK) >> \o SubSeq(StoredRows, 1, n)
    /\ now \in StartTimes
    /\ InitLocals
    /\ s_pc = "sleep"
    /\ sf_return = "start_monitoring"
    /\ start_ts = day_start_ts(now) - DAY
    /\ sn_pc = "get_all_daily_transactions"
    /\ sn_history = << SnapshotCall >>

NextSnapshot ==
    \/ SnapshotStep
    \/ W_TrackedBatch
    \/ W_SaveTrackedBatch
    \/ TickSnapshot(MaxTimeSnapshot)

SpecSnapshot == InitSnapshot /\ [][NextSnapshot]_vars

-----------------------------------------------------------------------------
(* The store by itself: a process that opens the file (main.rs at a start or a
   restart) and the callers of the Database trait, among them the handlers of
   main.rs that ask for the totals of one address *)

\* the spellings a caller gives an address in
Spellings == { BASE, to_lowercase(BASE), BASE_UPPER,
               OPTIMISM, to_lowercase(OPTIMISM), OPTIMISM_UPPER, UNKNOWN }

\* the batches of the calls of save_tracked_batch: two tx hashes, each with
\* different addresses, results and timestamps
ClientBatches ==
    { [tx_hash |-> "0xc", batcher_address |-> BASE_UPPER, timestamp |-> DAY + 5,
       analysis_result |-> to_string([blob_gas_used |-> 1, eip_7623_calldata_gas |-> 4,
           blob_data_wei_spent |-> 2, eip_7623_calldata_wei_spent |-> 5])],
      [tx_hash |-> "0xc", batcher_address |-> OPTIMISM, timestamp |-> 2 * DAY + 10,
       analysis_result |-> to_string([blob_gas_used |-> 2, eip_7623_calldata_gas |-> 1,
           blob_data_wei_spent |-> 7, eip_7623_calldata_wei_spent |-> 3])],
      [tx_hash |-> "0xc", batcher_address |-> to_lowercase(BASE), timestamp |-> DAY + 5,
       analysis_result |-> to_string([blob_gas_used |-> 2, eip_7623_calldata_gas |-> 1,
           blob_data_wei_spent |-> 7, eip_7623_calldata_wei_spent |-> 3])],
      [tx_hash |-> "0x1", batcher_address |-> OPTIMISM_UPPER, timestamp |-> DAY + 5,
       analysis_result |-> to_string([blob_gas_used |-> 1, eip_7623_calldata_gas |-> 4,
           blob_data_wei_spent |-> 2, eip_7623_calldata_wei_spent |-> 5])],
      [tx_hash |-> "0x1", batcher_address |-> BASE, timestamp |-> 2 * DAY + 10,
       analysis_result |-> to_string([blob_gas_used |-> 2, eip_7623_calldata_gas |-> 1,
           blob_data_wei_spent |-> 7, eip_7623_calldata_wei_spent |-> 3])] }

\* the blocks of the calls
InitialBlocks == { INITIAL_BLOCK, 7 }

\* the start_timestamp and end_timestamp of the queries
Windows == { << DAY, 2 * DAY - 1 >>, << 0, 3 * DAY >>, << 2 * DAY, DAY >> }

\* entries of failed_transactions left by an earlier run: of 0xa, failed at 0 and
\* once more at 60, and of 0xb, failed at 100
QueuedEntries ==
    << [tx_hash |-> "0xa", batcher_address |-> to_lowercase(BASE),
        error_message |-> "Provider error", retry_count |-> 1,
        next_retry_at |-> 180, first_failed_at |-> 0, last_attempted_at |-> 60],
       [tx_hash |-> "0xb", batcher_address |-> to_lowercase(OPTIMISM),
        error_message |-> "Transaction not found", retry_count |-> 0,
        next_retry_at |-> 160, first_failed_at |-> 100, last_attempted_at |-> 100] >>

\* the pool is connected: SqliteDatabase::new has returned
Opened == db_call # NoCall

\* SqliteDatabase::new(DB_PATH, initial_block), on a new file or on the file of
\* an earlier run
DB_New ==
    /\ \E initial_block \in InitialBlocks :
          /\ l2_batches_txs' = SqliteDatabase_new(initial_block)
          /\ db_call' = [NoCall EXCEPT !.op = "new", !.block = initial_block]
    /\ UNCHANGED << failed_transactions, now, scanner_vars, retry_vars, history_vars,
                    snapshot_vars >>

\* db.save_tracked_batch(&batch)
DB_SaveTrackedBatch ==
    /\ Opened
    /\ \E batch \in ClientBatches :
          LET saved == ~UniqueViolation(l2_batches_txs, batch.tx_hash)
          IN /\ l2_batches_txs' = IF saved THEN save_tracked_batch(batch)
                                  ELSE l2_batches_txs
             /\ db_call' = [NoCall EXCEPT !.op = "save_tracked_batch",
                                          !.batch = batch, !.ok = saved]
    /\ UNCHANGED << failed_transactions, now, scanner_vars, retry_vars, history_vars,
                    snapshot_vars >>

\* db.update_last_analyzed_block(block_number)
DB_UpdateLastAnalyzedBlock ==
    /\ Opened
    /\ \E block_number \in InitialBlocks :
          /\ l2_batches_txs' = update_last_analyzed_block(block_number)
          /\ db_call' = [NoCall EXCEPT !.op = "update_last_analyzed_block",
                                       !.block = block_number]
    /\ UNCHANGED << failed_transactions, now, scanner_vars, retry_vars, history_vars,
                    snapshot_vars >>

\* db.save_failed_transaction(&failed_tx)
DB_SaveFailedTransaction ==
    /\ Opened
    /\ \E a \in { BASE_UPPER, OPTIMISM } :
          LET failed_tx == [tx_hash |-> "0xa", batcher_address |-> a,
                            error_message |-> "Provider error", retry_count |-> 0,
                            next_retry_at |-> now + BASE_RETRY_DELAY,
                            first_failed_at |-> now, last_attempted_at |-> now]
              saved == ~UniqueViolation(failed_transactions, failed_tx.tx_hash)
          IN /\ failed_transactions' = IF saved THEN save_failed_transaction(failed_tx)
                                       ELSE failed_transactions
             /\ db_call' = [NoCall EXCEPT !.op = "save_failed_transaction",
                                          !.failed_tx = failed_tx, !.ok = saved]
    /\ UNCHANGED << l2_batches_txs, now, scanner_vars, retry_vars, history_vars,
                    snapshot_vars >>

\* the four queries of one address
QueryOps == { "get_daily_transactions", "get_eth_saved_data",
              "get_total_blob_data_gas", "get_total_pectra_data_gas" }

\* what db.<op>(batcher_address, start_timestamp, end_timestamp) returns
Query(op, batcher_address, start_timestamp, end_timestamp) ==
    CASE op = "get_daily_transactions" ->
            get_daily_transactions(batcher_address, start_timestamp, end_timestamp)
      [] op = "get_eth_saved_data" ->
            get_eth_saved_data(batcher_address, start_timestamp, end_timestamp)
      [] op = "get_total_blob_data_gas" ->
            get_total_blob_data_gas(batcher_address, start_timestamp, end_timestamp)
      [] op = "get_total_pectra_data_gas" ->
            get_total_pectra_data_gas(batcher_address, start_timestamp, end_timestamp)

\* db.<op>(batcher_address, start_timestamp, end_timestamp) of a handler
DB_Aggregate(op) ==
    /\ Opened
    /\ \E a \in Spellings, w \in Windows :
          db_call' = [NoCall EXCEPT !.op = op, !.batcher_address = a,
                                   !.start_timestamp = w[1], !.end_timestamp = w[2],
                                   !.result = Query(op, a, w[1], w[2])]
    /\ UNCHANGED << store_vars, now, scanner_vars, retry_vars, history_vars,
                    snapshot_vars >>

\* no file yet, or the file an earlier run left; no task of the service runs
InitClient ==
    /\ \/ /\ l2_batches_txs = << >>
          /\ failed_transactions = << >>
       \/ /\ l2_batches_txs = << MonitoringState(INITIAL_BLOCK) >> \o StoredRows
          /\ failed_transactions \in { << >>, QueuedEntries }
    /\ now = 2 * DAY + 10
    /\ InitProcess
    /\ s_pc = "sleep"
    /\ sf_return = "start_monitoring"
    /\ start_ts = 0
    /\ sn_pc = "-"
    /\ sn_history = << >>

NextClient ==
    \/ DB_New
    \/ DB_SaveTrackedBatch
    \/ DB_UpdateLastAnalyzedBlock
    \/ DB_SaveFailedTransaction
    \/ DB_Aggregate("get_daily_transactions")
    \/ DB_Aggregate("get_eth_saved_data")
    \/ DB_Aggregate("get_total_blob_data_gas")
    \/ DB_Aggregate("get_total_pectra_data_gas")

\* the store under the calls of its clients
SpecClient == InitClient /\ [][NextClient]_vars

-----------------------------------------------------------------------------
(* The retry loop on a queue an earlier run left *)

\* the instants the loop can find the clock at when it starts
QueueTimes == { 100, 170, 200 }

InitQueue ==
    /\ l2_batches_txs = << MonitoringState(INITIAL_BLOCK) >>
    /\ failed_transactions = QueuedEntries
    /\ now \in QueueTimes
    /\ InitProcess
    /\ s_pc = "sleep"
    /\ sf_return = "start_monitoring"
    /\ start_ts = 0
    /\ sn_pc = "-"
    /\ sn_history = << >>

NextQueue ==
    \/ RetryStep
    \/ Tick(MaxTimeQueue)

\* start_retry_loop while the Scanner sleeps
SpecQueue == InitQueue /\ [][NextQueue]_vars

-----------------------------------------------------------------------------
(* The retry loop and a caller of save_failed_transaction on that queue *)

InitEnqueue ==
    /\ l2_batches_txs = << MonitoringState(INITIAL_BLOCK) >>
    /\ failed_transactions = QueuedEntries
    /\ now \in QueueTimes
    /\ InitProcess
    /\ s_pc = "caller"
    /\ sf_return = "caller"
    /\ start_ts = 0
    /\ sn_pc = "-"
    /\ sn_history = << >>

NextEnqueue ==
    \/ Call_SaveFailedTransaction(ShortChain)
    \/ SaveFailedStep
    \/ RetryStep
    \/ Tick(MaxTimeEnqueue)

\* start_retry_loop while another task calls save_failed_transaction
SpecEnqueue == InitEnqueue /\ [][NextEnqueue]_vars

-----------------------------------------------------------------------------
(* Properties *)

InAnalyzed(t) == is_tx_already_tracked(t)
InFailed(t) == is_tx_in_failed_queue(t)

\* the rows of a table with this tx_hash
RowsOf(table, t) == { table[i] : i \in { j \in DOMAIN table : table[j].tx_hash = t } }

\* C1: in every reachable state no tx_hash is in both l2_batches_txs and
\* failed_transactions.
C1_NeverInBoth == \A t \in TxHashes : ~(InAnalyzed(t) /\ InFailed(t))

\* C2: when a scan cycle reaches the cursor update, every tx_hash the provider
\* returned in the cycle is in exactly one of the two tables, once.
C2_ExactlyOneAtEndOfCycle ==
    s_pc = "update_last_analyzed_block" =>
        \A t \in s_returned :
            CountTx(l2_batches_txs, t) + CountTx(failed_transactions, t) = 1

\* C3: the cursor never decreases.
C3_CursorNeverDecreases ==
    [][get_last_analyzed_block' >= get_last_analyzed_block]_vars

\* C4: after the completed cycles whose cursor update succeeded, the cursor is the
\* highest head observed in those cycles.
C4_CursorIsHighestHead ==
    observed_max >= 0 => get_last_analyzed_block = observed_max

\* C5: the Scanner reaches the call of analyze_transaction for a tx_hash only
\* through its two existence checks, the first having found the hash absent from
\* l2_batches_txs and the second absent from failed_transactions.
C5_NoAnalysisOfKnownTx ==
    [][ /\ s_pc' = "analyze_transaction" =>
              \/ s_pc = "analyze_transaction" /\ s_tx' = s_tx
              \/ /\ s_pc = "is_tx_in_failed_queue"
                 /\ s_tx' = s_tx
                 /\ ~InFailed(s_tx)
        /\ s_pc' = "is_tx_in_failed_queue" =>
              \/ s_pc = "is_tx_in_failed_queue" /\ s_tx' = s_tx
              \/ /\ s_pc = "is_tx_already_tracked"
                 /\ s_tx' = s_tx
                 /\ ~InAnalyzed(s_tx) ]_vars

\* C5: the transaction stored for the first address is skipped when the second
\* address returns it in the same cycle.
C5_Witness ==
    /\ s_pc = "update_last_analyzed_block"
    /\ s_outcome = "Skipping already tracked transaction"
    /\ \E t \in s_returned : InAnalyzed(t)

\* C6: an entry leaves failed_transactions, other than by eviction at the retry
\* limit, only when its tx_hash is in l2_batches_txs, and a row of l2_batches_txs
\* is never removed.
C6_RemovedOnlyAfterSaved ==
    [][ \A t \in TxHashes :
          /\ (InFailed(t) /\ ~InFailed(t)' /\ r_pc # "evict") => InAnalyzed(t)
          /\ InAnalyzed(t) => InAnalyzed(t)' ]_vars

\* C6: a retry succeeded, the row is stored and the entry removed.
C6_Witness ==
    /\ r_pc = "delay"
    /\ r_outcome = "Successfully processed and saved transaction"
    /\ InAnalyzed(r_tx.tx_hash)
    /\ ~InFailed(r_tx.tx_hash)

C8_Backoff ==
    LET delays == << 60, 120, 240, 480, 960 >>
    IN \A n \in 0 .. 4 :
          /\ calculate_next_retry_time(n) = now + delays[n + 1]
          /\ delays[n + 1] = Min(60 * 2 ^ n, 3600)

\* C8: an entry whose fourth retry failed waits 960 s.
C8_Witness ==
    \E i \in DOMAIN failed_transactions :
        /\ failed_transactions[i].retry_count = 4
        /\ failed_transactions[i].next_retry_at
              = failed_transactions[i].last_attempted_at + 960

\* the row save_failed_transaction inserts for its arguments
FreshEntry(args, current_time, next_retry_at) ==
    [tx_hash |-> args.tx_hash,
     batcher_address |-> to_lowercase(args.batcher_address),
     error_message |-> args.error_message,
     retry_count |-> 0,
     next_retry_at |-> next_retry_at,
     first_failed_at |-> current_time,
     last_attempted_at |-> current_time]

\* C9: save_failed_transaction on a tx_hash that is not queued builds and inserts
\* an entry with retry_count 0, next_retry_at = now + 60 and first_failed_at =
\* last_attempted_at = the time of the call; on a queued tx_hash it inserts
\* nothing, replaces error_message and sets next_retry_at = now + 120.
C9_Enqueue ==
    [][ s_pc' # s_pc =>
        /\ s_pc' = "sf_is_tx_in_failed_queue" => sf_current_time' = now
        /\ s_pc = "sf_is_tx_in_failed_queue" /\ s_pc' # "caller"
              /\ ~InFailed(sf_args.tx_hash) =>
              /\ s_pc' = "sf_save_failed_transaction"
              /\ sf_failed_tx'.retry_count = 0
              /\ sf_failed_tx'.next_retry_at = now + 60
              /\ sf_failed_tx'.first_failed_at = sf_current_time
              /\ sf_failed_tx'.last_attempted_at = sf_current_time
        /\ s_pc = "sf_is_tx_in_failed_queue" /\ s_pc' # "caller"
              /\ InFailed(sf_args.tx_hash) =>
              /\ s_pc' = "sf_update_failed_transaction_retry"
              /\ sf_failed_tx'.next_retry_at = now + 120
        /\ s_pc = "sf_save_failed_transaction"
              /\ failed_transactions' # failed_transactions =>
              failed_transactions' =
                  Append(failed_transactions,
                         FreshEntry(sf_args, sf_failed_tx.first_failed_at,
                                    sf_failed_tx.next_retry_at))
        /\ s_pc = "sf_update_failed_transaction_retry" =>
              /\ Len(failed_transactions') = Len(failed_transactions)
              /\ \A i \in DOMAIN failed_transactions :
                    IF failed_transactions[i].tx_hash = sf_args.tx_hash
                          /\ s_outcome' = "Updated existing failed transaction in retry queue"
                    THEN /\ failed_transactions'[i].error_message = sf_args.error_message
                         /\ failed_transactions'[i].next_retry_at
                               = sf_failed_tx.next_retry_at
                    ELSE failed_transactions'[i] = failed_transactions[i] ]_vars

\* C9: an entry that was queued has been updated by a second call with another
\* error message.
C9_Witness ==
    /\ s_pc = "caller"
    /\ s_outcome = "Updated existing failed transaction in retry queue"
    /\ \E i \in DOMAIN failed_transactions :
          /\ failed_transactions[i].error_message = "Transaction not found"
          /\ failed_transactions[i].next_retry_at = now + 120
          /\ failed_transactions[i].first_failed_at < now

\* C10: when a retry of a transaction that failed before succeeds and is stored,
\* the transaction is in l2_batches_txs once, with the analysis_result of that
\* call, and not in failed_transactions.
C10_RetrySuccess ==
    [][ (r_pc = "remove_failed_transaction"
             /\ r_outcome' = "Successfully processed and saved transaction") =>
        LET t == r_tx.tx_hash
        IN /\ failures[t] >= 1
           /\ ~InFailed(t)'
           /\ CountTx(l2_batches_txs', t) = 1
           /\ \A row \in RowsOf(l2_batches_txs', t) :
                 row.analysis_result = r_batch.analysis_result ]_vars

\* C10: a transaction that failed twice and succeeded on the third attempt.
C10_Witness ==
    /\ r_pc = "delay"
    /\ r_outcome = "Successfully processed and saved transaction"
    /\ failures[r_tx.tx_hash] = 2
    /\ r_tx.retry_count = 1
    /\ InAnalyzed(r_tx.tx_hash)
    /\ ~InFailed(r_tx.tx_hash)

\* the awaits of RetryHandler::save_failed_transaction
SaveFailedPcs == { "sf_is_tx_in_failed_queue", "sf_save_failed_transaction",
                   "sf_update_failed_transaction_retry" }

C12_FailedSaveIsQueued ==
    [][ /\ (s_pc = "save_tracked_batch" /\ s_outcome' = "Failed to save transaction") =>
              InFailed(s_tx)'
        /\ (r_pc = "save_tracked_batch" /\ r_pc' = "update_failed_transaction_retry") =>
              InFailed(r_tx.tx_hash)' ]_vars

\* C13: once the head is read, the Scanner leaves the cycle for its sleep only
\* through the cursor update, whatever the analyses and the address queries
\* returned; the update is called with the head read at the start of the cycle,
\* and when it returns Ok the cursor is that head.
C13_CursorAdvancedToEnd ==
    [][ /\ (s_pc # "sleep" /\ s_pc' = "sleep") => s_pc = "update_last_analyzed_block"
        /\ (s_pc \notin { "get_block_number", "sleep" }) => current_block' = current_block
        /\ (s_pc = "get_normal_txs" /\ s_pc' # s_pc) =>
              s_pc' \in { "is_tx_already_tracked", "get_normal_txs",
                          "update_last_analyzed_block" }
        /\ (s_pc = "update_last_analyzed_block" /\ s_outcome' = "Completed check") =>
              get_last_analyzed_block' = current_block ]_vars

\* C13: a cycle whose query for the first address returned Err and whose
\* transaction failed analysis has moved the cursor to its head.
C13_Witness ==
    /\ s_pc = "sleep"
    /\ s_outcome = "Completed check"
    /\ start_block = 1
    /\ current_block = 1
    /\ get_last_analyzed_block = 1
    /\ s_returned = { "0xa" }
    /\ InFailed("0xa")
    /\ ~InAnalyzed("0xb")

\* C14: when the read of the head returns Err the cycle is skipped: the Scanner
\* sleeps until the next cycle and the cursor keeps its value.
C14_OutageSkipsCycle ==
    [][ (s_pc = "get_block_number" /\ s_pc' \notin { "get_block_number", "get_normal_txs" }) =>
            /\ s_pc' = "sleep"
            /\ get_last_analyzed_block' = get_last_analyzed_block ]_vars

\* C15: when start_monitoring has returned, the retry loop can still take a step.
C15_LoopsIndependent == s_pc = "returned" => ENABLED RetryStep

\* C16: neither table ever holds two rows with the same tx_hash, and a stored row
\* of l2_batches_txs other than the cursor's is never changed.
C16_NoDuplicateRows ==
    [][ /\ \A t \in TxHashes :
              /\ CountTx(l2_batches_txs', t) <= 1
              /\ CountTx(failed_transactions', t) <= 1
        /\ \A i \in DOMAIN l2_batches_txs :
              l2_batches_txs[i].tx_hash # "monitoring_state" =>
                  /\ i \in DOMAIN l2_batches_txs'
                  /\ l2_batches_txs'[i] = l2_batches_txs[i] ]_vars

\* C16: with no store error, the Scanner's insert of a row the retry handler had
\* stored in the meantime was rejected.
C16_Witness ==
    /\ s_outcome = "Failed to save transaction"
    /\ faults = 0
    /\ \E t \in s_returned : CountTx(l2_batches_txs, t) = 1

\* the call of create_and_save_snapshot in progress, or the last one made
LastCall == sn_history[Len(sn_history)]

\* midnight before the UTC day that holds t
Midnight(t) == t - (t % DAY)

\* what a row saved: what EIP-7623 calldata would have cost beyond what the blob
\* data did cost, nothing when the blob data cost more
ValueSaved(row) ==
    LET analysis == row.analysis_result.json
        blob == IF analysis.blob_data_wei_spent = NULL THEN 0
                ELSE analysis.blob_data_wei_spent
    IN Max(analysis.eip_7623_calldata_wei_spent - blob, 0)

\* the snapshot rows of the UTC day before the day of t, from the rows of
\* l2_batches_txs stamped in that day
ExpectedStats(t) ==
    LET rows == PreviousDayRows(t)
        Of(a) == { i \in rows : l2_batches_txs[i].batcher_address = a }
    IN { [batcher_address |-> a,
          snapshot_timestamp |-> Midnight(t) - DAY,
          total_daily_txs |-> Cardinality(Of(a)),
          total_eth_saved_wei |-> Sum([i \in Of(a) |-> ValueSaved(l2_batches_txs[i])]),
          total_blob_data_gas |->
              Sum([i \in Of(a) |-> l2_batches_txs[i].analysis_result.json.blob_gas_used]),
          total_pectra_data_gas |->
              Sum([i \in Of(a) |->
                      l2_batches_txs[i].analysis_result.json.eip_7623_calldata_gas])] :
         a \in { to_lowercase(L2_BATCHERS_ADDRESSES[k]) : k \in DOMAIN L2_BATCHERS_ADDRESSES }
                \cap { l2_batches_txs[i].batcher_address : i \in rows } }

C18_RerunSameDay ==
    [][ /\ (/\ sn_pc = "insert_daily_batcher_stats"
            /\ sn_pc' = "tick"
            /\ LastCall'.saved
            /\ \E k \in 1 .. Len(sn_history) - 1 :
                  /\ sn_history[k].saved
                  /\ sn_history[k].at \div DAY = LastCall.at \div DAY
                  /\ sn_history[k].rows = Cardinality(PreviousDayRows(LastCall.at)))
               => daily_batcher_stats' = daily_batcher_stats
        /\ \A r1, r2 \in daily_batcher_stats' :
               (/\ r1.batcher_address = r2.batcher_address
                /\ r1.snapshot_timestamp = r2.snapshot_timestamp) => r1 = r2 ]_vars

\* C18: two runs of the same day, started at different instants, have both
\* written their batch over the same rows.
C18_Witness ==
    /\ sn_pc = "tick"
    /\ Len(sn_history) = 2
    /\ sn_history[1].saved
    /\ sn_history[2].saved
    /\ sn_history[2].at > sn_history[1].at
    /\ sn_history[2].at \div DAY = sn_history[1].at \div DAY
    /\ sn_history[1].rows = 6
    /\ Cardinality(PreviousDayRows(sn_history[2].at)) = 6
    /\ Cardinality(daily_batcher_stats) = 2

\* the awaits of create_and_save_snapshot
SnapshotPcs == { "get_all_daily_transactions", "get_all_eth_saved_data",
                 "get_all_total_blob_data_gas", "get_all_total_pectra_data_gas",
                 "insert_daily_batcher_stats" }

\* C19: daily_batcher_stats changes only in the one write of a run, which stores
\* every row of the batch built from the four queries of that run; a step of the
\* run that returns Err leaves the table as it was and ends the run.
C19_AllOrNone ==
    [][ /\ daily_batcher_stats' # daily_batcher_stats =>
              /\ sn_pc = "insert_daily_batcher_stats"
              /\ stats_vec \subseteq daily_batcher_stats'
              /\ \A r \in daily_batcher_stats :
                    r.snapshot_timestamp # start_ts => r \in daily_batcher_stats'
        /\ (sn_pc \in SnapshotPcs /\ faults' # faults) =>
              /\ daily_batcher_stats' = daily_batcher_stats
              /\ sn_pc' = "tick" ]_vars

\* C19: a run over a window with rows ended on an Err and the table is empty.
C19_Witness ==
    /\ sn_pc = "tick"
    /\ faults = 1
    /\ Len(sn_history) = 1
    /\ ~LastCall.saved
    /\ LastCall.rows = 6
    /\ daily_batcher_stats = {}

\* C20: every call of create_and_save_snapshot after the first is made at least
\* 24 hours after the call before it.
C20_OncePerInterval ==
    \A k \in 1 .. Len(sn_history) - 1 :
        sn_history[k + 1].at >= sn_history[k].at + SNAPSHOT_INTERVAL

\* the stored rows of transactions: every row but the cursor's
AnalyzedRows(table) == { table[i] : i \in { j \in DOMAIN table :
                                               table[j].tx_hash # "monitoring_state" } }

\* the cursor's row without the cursor
CursorFrame(table) ==
    { [tx_hash |-> r.tx_hash, batcher_address |-> r.batcher_address,
       analysis_result |-> r.analysis_result, timestamp |-> r.timestamp] :
      r \in RowsOf(table, "monitoring_state") }

\* C21: a row of a transaction, once written, stays in l2_batches_txs with every
\* column as written, whatever step the Scanner, the retry handler or the snapshot
\* task takes; a step that moves the cursor changes last_analyzed_block of the
\* cursor's row and nothing else.
C21_RowsImmutable ==
    [][ /\ AnalyzedRows(l2_batches_txs) \subseteq AnalyzedRows(l2_batches_txs')
        /\ CursorFrame(l2_batches_txs') = CursorFrame(l2_batches_txs)
        /\ get_last_analyzed_block' # get_last_analyzed_block =>
              AnalyzedRows(l2_batches_txs') = AnalyzedRows(l2_batches_txs) ]_vars

\* C21: the cursor was moved after a row had been written, and the row the retry
\* handler wrote is stored next to the row the Scanner wrote.
C21_Witness ==
    /\ get_last_analyzed_block > INITIAL_BLOCK
    /\ r_outcome = "Successfully processed and saved transaction"
    /\ Cardinality(AnalyzedRows(l2_batches_txs)) >= 2

\* C27: an entry the pass takes from the fetched list with retry_count >= 5 goes
\* to remove_failed_transaction and the step that removes it is no analysis (no
\* result, no failure recorded, the entry gone when the store answered); an entry
\* taken with retry_count < 5 goes to retry_transaction_analysis, and that step
\* yields a result or a failure.
C27_EvictWithoutAnalysis ==
    [][ /\ (r_tx' # r_tx /\ r_tx' # NoFailedTx) =>
              r_pc' = IF r_tx'.retry_count >= MAX_RETRY_ATTEMPTS
                      THEN "evict" ELSE "retry_transaction_analysis"
        /\ r_pc = "evict" =>
              /\ r_tx.retry_count >= MAX_RETRY_ATTEMPTS
              /\ failures' = failures
              /\ r_batch' = NoBatch
              /\ l2_batches_txs' = l2_batches_txs
              /\ faults' = faults => ~is_tx_in_failed_queue(r_tx.tx_hash)'
        /\ r_pc = "retry_transaction_analysis" =>
              /\ r_tx.retry_count < MAX_RETRY_ATTEMPTS
              /\ r_pc' \in { "save_tracked_batch", "update_failed_transaction_retry" }
              /\ (r_batch' # NoBatch) = (r_pc' = "save_tracked_batch")
              /\ (r_update' # NoUpdate) = (r_pc' = "update_failed_transaction_retry") ]_retry_vars

\* C27: with no store error, a transaction whose analysis failed in the Scanner
\* and in five retries is in neither table: its entry was removed at retry_count 5,
\* without a seventh analysis.
C27_Witness ==
    \E t \in TxHashes :
        /\ faults = 0
        /\ failures[t] = MAX_RETRY_ATTEMPTS + 1
        /\ ~InFailed(t)
        /\ ~InAnalyzed(t)

\* the messages a failed retry attempt leaves in the entry
RetryErrors == AnalysisErrors \cup { "Failed to parse transaction hash", "Database save error" }

\* C28: when an attempt of the retry handler fails (the analysis, or the save of
\* its result), the arguments it prepares are the entry's retry_count plus 1, the
\* time of the failure plus min(60 * 2^(new retry_count), 3600) and the new error;
\* the update then stores exactly these in the entry, sets last_attempted_at to
\* the current time and changes nothing else in the table.
C28_FailedRetryUpdate ==
    [][ /\ (r_pc' = "update_failed_transaction_retry" /\ r_pc # r_pc') =>
              /\ r_update'.retry_count = r_tx.retry_count + 1
              /\ r_update'.next_retry_at =
                     now + Min(60 * 2 ^ r_update'.retry_count, 3600)
              /\ r_update'.error_message \in RetryErrors
              /\ RowsOf(failed_transactions, r_tx.tx_hash) = { r_tx }
        /\ (r_pc = "update_failed_transaction_retry" /\ faults' = faults) =>
              /\ RowsOf(failed_transactions', r_tx.tx_hash) =
                     { [r_tx EXCEPT !.retry_count = r_tx.retry_count + 1,
                                    !.next_retry_at = r_update.next_retry_at,
                                    !.error_message = r_update.error_message,
                                    !.last_attempted_at = now] }
              /\ \A t \in TxHashes \ { r_tx.tx_hash } :
                     RowsOf(failed_transactions', t) = RowsOf(failed_transactions, t)
              /\ Len(failed_transactions') = Len(failed_transactions) ]_retry_vars

\* C28: the entry of a transaction was updated after its third failed retry:
\* retry_count 3, the next attempt 480 s after this one, the error of this attempt.
C28_Witness ==
    /\ r_outcome = "scheduled for retry"
    /\ \E e \in RowsOf(failed_transactions, r_tx.tx_hash) :
          /\ r_tx.retry_count = 2
          /\ e.retry_count = 3
          /\ e.next_retry_at = now + 480
          /\ e.last_attempted_at = now
          /\ e.error_message # r_tx.error_message

\* the elements of a sequence
Entries(seq) == { seq[i] : i \in DOMAIN seq }

\* the entries a pass that is under way has not finished: the one taken and the
\* ones after it
Fetched(tx, queue) == IF tx = NoFailedTx THEN << >> ELSE << tx >> \o queue

\* C29: the fetch of a pass returns the stored entries with next_retry_at <= now,
\* each once, in ascending order of next_retry_at; the pass takes them from the
\* head of that list, one after the other; and a step of the pass changes or
\* removes no stored entry but the one it has taken, and analyses no other
\* transaction, so an entry that was not ready at the fetch is left as it is.
C29_ReadyInOrder ==
    [][ /\ (r_pc = "sleep" /\ faults' = faults) =>
              LET list == Fetched(r_tx', r_queue')
                  ready == { e \in Entries(failed_transactions) :
                                e.next_retry_at <= now }
              IN /\ Entries(list) = ready
                 /\ Len(list) = Cardinality(ready)
                 /\ \A i, j \in DOMAIN list :
                        i < j => list[i].next_retry_at <= list[j].next_retry_at
                 /\ (list = << >>) = (r_pc' = "sleep")
        /\ r_pc # "sleep" =>
              /\ r_tx' = r_tx => r_queue' = r_queue
              /\ r_tx' # r_tx => Fetched(r_tx', r_queue') = r_queue
              /\ \A e \in Entries(failed_transactions) \ { r_tx } :
                     e \in Entries(failed_transactions')
              /\ \A t \in TxHashes \ { r_tx.tx_hash } :
                     failures'[t] = failures[t] ]_retry_vars

\* C29: a pass analyses the entry it fetched while the entry of another
\* transaction, due later than the fetch, waits in the table.
C29_Witness ==
    /\ r_pc = "retry_transaction_analysis"
    /\ r_queue = << >>
    /\ \E e \in Entries(failed_transactions) :
          /\ e.tx_hash # r_tx.tx_hash
          /\ e.next_retry_at > now

\* C29: a pass fetched two ready entries and took the one due first.
C29_WitnessOrder ==
    /\ r_pc = "retry_transaction_analysis"
    /\ r_queue # << >>
    /\ r_tx.next_retry_at < Head(r_queue).next_retry_at

\* C30: while a run of create_and_save_snapshot called at the time `at` is under
\* way, its window is [floor(at / 86400) * 86400 - 86400, floor(at / 86400) * 86400 - 1]:
\* the start is a multiple of 86400, the window holds 86400 seconds, it ends
\* before `at` and less than a day before it, and every row of the batch the run
\* builds carries the start of the window as snapshot_timestamp.
C30_Window ==
    sn_pc \in SnapshotPcs =>
        LET at == LastCall.at
            floor == at - (at % 86400)
        IN /\ start_ts = floor - 86400
           /\ end_ts = floor - 1
           /\ start_ts % 86400 = 0
           /\ end_ts - start_ts + 1 = 86400
           /\ end_ts < at
           /\ at - end_ts <= 86400
           /\ \A r \in stats_vec : r.snapshot_timestamp = start_ts

\* C30: a run called at the first second of a day built a batch with a row, its
\* window the whole day before.
C30_Witness ==
    /\ sn_pc = "insert_daily_batcher_stats"
    /\ LastCall.at % 86400 = 0
    /\ end_ts = LastCall.at - 1
    /\ stats_vec # {}

\* C30: a run called at the last second of a day.
C30_WitnessLastSecond ==
    /\ sn_pc = "insert_daily_batcher_stats"
    /\ LastCall.at % 86400 = 86399
    /\ stats_vec # {}

\* C22: a call of save_tracked_batch leaves exactly one row with the tx_hash of
\* its batch; when a row with that tx_hash was stored already, the call returns
\* Err and the table is as it was, the row holding the values of the first
\* insert; when none was, the row holds the values of the batch.
C22_InsertIdempotent ==
    [][ db_call'.op = "save_tracked_batch" =>
          LET batch == db_call'.batch
          IN /\ CountTx(l2_batches_txs', batch.tx_hash) = 1
             /\ is_tx_already_tracked(batch.tx_hash) =>
                   /\ l2_batches_txs' = l2_batches_txs
                   /\ ~db_call'.ok
             /\ ~is_tx_already_tracked(batch.tx_hash) =>
                   /\ db_call'.ok
                   /\ Len(l2_batches_txs') = Len(l2_batches_txs) + 1
                   /\ \A r \in RowsOf(l2_batches_txs', batch.tx_hash) :
                         /\ r.analysis_result = batch.analysis_result
                         /\ r.timestamp = batch.timestamp ]_vars

\* C22: a second insert of 0xc, with another result and another timestamp than
\* the stored row has, was rejected.
C22_Witness ==
    /\ db_call.op = "save_tracked_batch"
    /\ db_call.batch.tx_hash = "0xc"
    /\ ~db_call.ok
    /\ \E r \in RowsOf(l2_batches_txs, "0xc") :
          /\ r.analysis_result # db_call.batch.analysis_result
          /\ r.timestamp # db_call.batch.timestamp

\* the cursor is persisted: the row 'monitoring_state' exists
HasCursor(table) == CountTx(table, "monitoring_state") > 0

\* C23: SqliteDatabase::new on a store that holds a cursor leaves both tables as
\* they are, whatever its initial_block; on a store without one it adds the
\* cursor's row with initial_block and changes nothing else.
C23_RestartKeepsStore ==
    [][ db_call'.op = "new" =>
          /\ failed_transactions' = failed_transactions
          /\ HasCursor(l2_batches_txs) => l2_batches_txs' = l2_batches_txs
          /\ ~HasCursor(l2_batches_txs) =>
                l2_batches_txs' =
                    Append(l2_batches_txs, MonitoringState(db_call'.block)) ]_vars

\* C23: the store was opened again, with an initial_block other than the cursor,
\* while it held rows of transactions and a queue entry.
C23_Witness ==
    /\ db_call.op = "new"
    /\ HasCursor(l2_batches_txs)
    /\ get_last_analyzed_block # db_call.block
    /\ get_last_analyzed_block # INITIAL_BLOCK
    /\ Len(l2_batches_txs) > 1
    /\ failed_transactions # << >>

\* the spellings with a letter in upper case
MixedCase == { BASE, BASE_UPPER, OPTIMISM, OPTIMISM_UPPER }

\* the spellings of the address a is a spelling of
SpellingsOf(a) ==
    CASE a \in { BASE, BASE_UPPER, to_lowercase(BASE) } ->
            { BASE, BASE_UPPER, to_lowercase(BASE) }
      [] a \in { OPTIMISM, OPTIMISM_UPPER, to_lowercase(OPTIMISM) } ->
            { OPTIMISM, OPTIMISM_UPPER, to_lowercase(OPTIMISM) }
      [] OTHER -> { a }

\* C24: no row of l2_batches_txs and no entry of failed_transactions holds an
\* address with a letter in upper case, in whatever spelling the writer gave it;
\* and the result of a query of one address is the result of the same query
\* for every other spelling of that address.
C24_CaseInsensitive ==
    /\ \A r \in Entries(l2_batches_txs) \cup Entries(failed_transactions) :
          r.batcher_address \notin MixedCase
    /\ db_call.op \in QueryOps =>
          \A a \in SpellingsOf(db_call.batcher_address) :
              Query(db_call.op, a, db_call.start_timestamp, db_call.end_timestamp)
                  = db_call.result

\* C24: a row and a queue entry written with upper-case addresses are stored, and
\* the count of an address given in upper case found its rows.
C24_Witness ==
    /\ db_call.op = "get_daily_transactions"
    /\ db_call.batcher_address = BASE_UPPER
    /\ db_call.result > 3
    /\ \E r \in RowsOf(l2_batches_txs, "0xc") : r.batcher_address = to_lowercase(BASE)
    /\ \E e \in Entries(failed_transactions) : e.first_failed_at = now

\* the rows of a table that are of the address, stamped within the window and
\* not the cursor's
Matching(table, a, w) ==
    { r \in Entries(table) : /\ r.tx_hash # "monitoring_state"
                             /\ r.batcher_address \in SpellingsOf(a)
                             /\ w[1] <= r.timestamp
                             /\ r.timestamp <= w[2] }

\* the address and the window of the last call, a query
CallWindow(call) == << call.start_timestamp, call.end_timestamp >>

\* C25: a query that finds no row of its address within its window returns 0;
\* and when a write that follows a query leaves the rows of that address within
\* that window as they are (it adds a row of another address or a row stamped
\* outside the window, or it moves the cursor), the same query still has the
\* result it had.
C25_OnlyMatchingRows ==
    [][ /\ (/\ db_call'.op \in QueryOps
            /\ Matching(l2_batches_txs, db_call'.batcher_address,
                         CallWindow(db_call')) = {})
              => db_call'.result = 0
        /\ (/\ db_call.op \in QueryOps
            /\ l2_batches_txs' # l2_batches_txs
            /\ Matching(l2_batches_txs', db_call.batcher_address, CallWindow(db_call))
                  = Matching(l2_batches_txs, db_call.batcher_address,
                             CallWindow(db_call)))
              => \A op \in { db_call.op }, a \in { db_call.batcher_address },
                    w \in { CallWindow(db_call) } :
                     Query(op, a, w[1], w[2])' = db_call.result ]_vars

\* C25: the count of one address over the second day is 3, in a table with rows
\* of the other address, rows of other days and a cursor that was moved.
C25_Witness ==
    /\ db_call.op = "get_daily_transactions"
    /\ db_call.batcher_address = BASE
    /\ db_call.start_timestamp = DAY
    /\ db_call.end_timestamp = 2 * DAY - 1
    /\ db_call.result = 3
    /\ Len(l2_batches_txs) > 9
    /\ get_last_analyzed_block # INITIAL_BLOCK

-----------------------------------------------------------------------------
(* The retry counter *)

\* C33: in every reachable state every entry of failed_transactions has
\* 0 <= retry_count <= MAX_RETRY_ATTEMPTS, and so has every retry_count the
\* RetryHandler is about to write
C33_RetryCountInRange ==
    /\ \A i \in DOMAIN failed_transactions :
          failed_transactions[i].retry_count \in 0..MAX_RETRY_ATTEMPTS
    /\ r_update # NoUpdate => r_update.retry_count \in 1..MAX_RETRY_ATTEMPTS

\* an entry stands at the limit, stored there by the update after its fifth
\* failed retry
C33_Witness ==
    /\ r_outcome = "scheduled for retry"
    /\ \E i \in DOMAIN failed_transactions :
          /\ failed_transactions[i].tx_hash = r_tx.tx_hash
          /\ failed_transactions[i].retry_count = MAX_RETRY_ATTEMPTS
          /\ r_tx.retry_count = MAX_RETRY_ATTEMPTS - 1

\* the entries of `after` that are the entries of `before` still queued, as
\* pairs of indices
Staying(before, after) ==
    { p \in (DOMAIN before) \X (DOMAIN after) :
        before[p[1]].tx_hash = after[p[2]].tx_hash }

\* C32 as stated: the retry_count of an entry that stays in failed_transactions
\* never decreases
C32_NeverDecreases ==
    [][\A p \in Staying(failed_transactions, failed_transactions') :
          failed_transactions'[p[2]].retry_count
              >= failed_transactions[p[1]].retry_count]_vars

\* C32: process_retry_queue never lowers the retry_count of an entry that stays
\* queued; the update of save_failed_transaction for a tx_hash that is already
\* queued sets it to 1, which lowers it when it was 2 or more
C32_LoweredOnlyByEnqueue ==
    [][\A p \in Staying(failed_transactions, failed_transactions') :
          LET before == failed_transactions[p[1]]
              after == failed_transactions'[p[2]]
          IN /\ after.retry_count < before.retry_count =>
                   /\ s_pc = "sf_update_failed_transaction_retry"
                   /\ before.tx_hash = sf_failed_tx.tx_hash
                   /\ after.retry_count = 1
             /\ ( /\ s_pc = "sf_update_failed_transaction_retry"
                  /\ before.tx_hash = sf_failed_tx.tx_hash
                  /\ s_outcome' = "Updated existing failed transaction in retry queue" )
                => after.retry_count = 1]_vars

\* an entry queued at 0 failed two retries, each followed by its update, and
\* stands at retry_count 1 after the caller queued its tx_hash again
C32_Witness ==
    /\ faults = 0
    /\ r_pc = "sleep"
    /\ s_pc = "caller"
    /\ s_outcome = "Updated existing failed transaction in retry queue"
    /\ \E i \in DOMAIN failed_transactions :
          /\ failed_transactions[i].first_failed_at = 0
          /\ failed_transactions[i].retry_count = 1
          /\ failures[failed_transactions[i].tx_hash] >= 2
          /\ ~InAnalyzed(failed_transactions[i].tx_hash)

-----------------------------------------------------------------------------
(* The update of a queued entry *)

\* the entry of tx_hash is the only thing of the store that differs after the
\* step, and its tx_hash, batcher_address and first_failed_at are the old ones
UpdateFrame(tx_hash) ==
    /\ l2_batches_txs' = l2_batches_txs
    /\ DOMAIN failed_transactions' = DOMAIN failed_transactions
    /\ \A i \in DOMAIN failed_transactions :
          /\ failed_transactions'[i].tx_hash = failed_transactions[i].tx_hash
          /\ failed_transactions'[i].batcher_address
                = failed_transactions[i].batcher_address
          /\ failed_transactions'[i].first_failed_at
                = failed_transactions[i].first_failed_at
          /\ failed_transactions[i].tx_hash # tx_hash
                => failed_transactions'[i] = failed_transactions[i]

\* C35: the update of an entry after a failed retry, and the update through
\* save_failed_transaction of a tx_hash that is already queued, leave the entry's
\* tx_hash, batcher_address and first_failed_at, every other entry, every row
\* of l2_batches_txs and the cursor as they were
C35_UpdateFrame ==
    [][/\ (r_pc = "update_failed_transaction_retry" /\ r_pc' = "delay")
           => UpdateFrame(r_tx.tx_hash)
       /\ (s_pc = "sf_update_failed_transaction_retry" /\ s_pc' = "caller")
           => UpdateFrame(sf_failed_tx.tx_hash)]_vars

\* the caller queued 0xb again and the retry handler rescheduled 0xa after a
\* failed retry: both updates were written, each beside the other entry
C35_Witness ==
    /\ s_outcome = "Updated existing failed transaction in retry queue"
    /\ r_pc = "delay"
    /\ r_outcome = "scheduled for retry"
    /\ r_tx.tx_hash = "0xa"
    /\ Len(failed_transactions) = 2
    /\ \E i, j \in DOMAIN failed_transactions :
          /\ failed_transactions[i].tx_hash = "0xa"
          /\ failed_transactions[i].retry_count = r_update.retry_count
          /\ failed_transactions[i].last_attempted_at = now
          /\ failed_transactions[j].tx_hash = "0xb"
          /\ failed_transactions[j].retry_count = 1
          /\ failed_transactions[j].last_attempted_at > 100

-----------------------------------------------------------------------------
(* Errors inside a retry pass *)

\* a step of process_retry_queue after the fetch keeps the entries that remain
\* of the pass, or takes the first of them as the next failed_tx
KeepsRest ==
    \/ r_queue' = r_queue /\ r_pc' # "sleep"
    \/ /\ r_queue # << >>
       /\ r_tx' = Head(r_queue)
       /\ r_queue' = Tail(r_queue)
       /\ r_pc' \in { "evict", "retry_transaction_analysis" }
    \/ /\ r_queue = << >>
       /\ r_queue' = << >>
       /\ r_pc \in { "evict", "delay" }
       /\ r_pc' = "sleep"

\* C38: the retry loop always has a next step; a failed fetch of the ready list
\* leaves the loop at its sleep with the store as it was; and after the fetch
\* every step of the pass, whatever failed in it, keeps the remaining entries
\* until each was taken in turn, the pass ending at the sleep only when none
\* is left
C38_ErrorsEndNothing ==
    /\ [](ENABLED RetryStep)
    /\ [][IF r_pc = "sleep"
           THEN faults' # faults => /\ r_pc' = "sleep"
                                    /\ r_queue' = << >>
                                    /\ UNCHANGED store_vars
           ELSE KeepsRest]_retry_vars

\* in a pass that fetched 0xb and 0xa, the analysis of 0xb failed and the update
\* of its entry failed too; the pass went on to 0xa
C38_Witness ==
    /\ faults = 1
    /\ failures["0xb"] = 1
    /\ r_tx.tx_hash = "0xa"
    /\ r_pc = "retry_transaction_analysis"
    /\ \E i \in DOMAIN failed_transactions :
          /\ failed_transactions[i].tx_hash = "0xb"
          /\ failed_transactions[i].retry_count = 0
          /\ failed_transactions[i].next_retry_at = 160

-----------------------------------------------------------------------------
(* The delays of the backoff *)

\* BASE_RETRY_DELAY * 2^n for the retry counts an entry can have
BackoffDelays == { BASE_RETRY_DELAY * Pow2(n) : n \in 0..MAX_RETRY_ATTEMPTS }

\* the next_retry_at values the RetryHandler holds for a write it has started
PendingRetryTimes ==
    { u.next_retry_at : u \in { r_update, sf_failed_tx } \ { NoUpdate, NoFailedTx } }

\* C39: every next_retry_at the RetryHandler computes for a write lies 60, 120,
\* 240, 480, 960 or 1920 s after the clock reading it is computed from, as
\* 60 * 2^retry_count of the retry_count written with it, below the cap of
\* 3600 s; and every next_retry_at that appears in failed_transactions is one
\* of those computed values
C39_Delays ==
    [][/\ \A u \in { r_update', sf_failed_tx' } \ { NoUpdate, NoFailedTx, r_update, sf_failed_tx } :
             /\ u.next_retry_at - now \in BackoffDelays
             /\ u.next_retry_at - now = BASE_RETRY_DELAY * Pow2(u.retry_count)
             /\ u.next_retry_at - now < MAX_RETRY_DELAY
       /\ \A i \in DOMAIN failed_transactions' :
             ( \A j \in DOMAIN failed_transactions :
                  failed_transactions[j] # failed_transactions'[i] )
             => failed_transactions'[i].next_retry_at \in PendingRetryTimes]_vars

\* the entry was rescheduled after its fifth failed retry, 1920 s ahead
C39_Witness ==
    /\ r_pc = "delay"
    /\ r_outcome = "scheduled for retry"
    /\ r_update.retry_count = MAX_RETRY_ATTEMPTS
    /\ \E i \in DOMAIN failed_transactions :
          /\ failed_transactions[i].tx_hash = r_tx.tx_hash
          /\ failed_transactions[i].next_retry_at = r_update.next_retry_at
          /\ failed_transactions[i].next_retry_at
                - failed_transactions[i].last_attempted_at = 1920

-----------------------------------------------------------------------------
(* Errors of the reads of a scan cycle *)

\* the awaits of start_monitoring that end in `?`: the cursor read, the head
\* read and the two existence checks
ReadPcs ==
    { "sleep", "get_block_number", "is_tx_already_tracked", "is_tx_in_failed_queue" }

\* C37: when the cursor read, the head read or an existence check of
\* start_monitoring returns Err, start_monitoring returns in that step with the
\* store as it was, the cursor still the one the cycle started from; and
\* nothing changes the store once it has returned
C37_ReadErrorReturns ==
    [][/\ ( /\ s_pc \in ReadPcs
            /\ faults' # faults
            /\ scanner_vars' # scanner_vars )
          => /\ s_pc' = "returned"
             /\ s_outcome' = "L2 monitor error"
             /\ UNCHANGED store_vars
             /\ s_pc # "sleep" => get_last_analyzed_block = start_block - 1
       /\ s_pc = "returned" => UNCHANGED << s_pc, store_vars >>]_vars

\* the first cycle stored the row of one transaction and then failed an
\* existence check for the next one: the row is stored and the cursor is the
\* initial one, below the head the cycle read
C37_Witness ==
    /\ s_pc = "returned"
    /\ faults = 1
    /\ get_last_analyzed_block = INITIAL_BLOCK
    /\ start_block = INITIAL_BLOCK + 1
    /\ current_block > INITIAL_BLOCK
    /\ \E t \in s_returned :
          /\ InAnalyzed(t)
          /\ failures[t] = 0
    /\ \E t \in s_returned : ~InAnalyzed(t) /\ ~InFailed(t)

-----------------------------------------------------------------------------
(* The number of retries of one entry *)

\* C34 as stated: process_retry_queue invokes the analysis at most
\* MAX_RETRY_ATTEMPTS times for one entry. The entry queued at 0 has one
\* failure on record, the Scanner's, and one more for each failed retry: at a
\* retry of it no more than four failed retries are on record
C34_AtMostFiveRetries ==
    ( /\ r_pc = "retry_transaction_analysis"
      /\ r_tx.first_failed_at = 0 )
    => failures[r_tx.tx_hash] - 1 < MAX_RETRY_ATTEMPTS

-----------------------------------------------------------------------------
(* Rows stored after a snapshot run *)

\* C36 as stated: a row stored after a call of create_and_save_snapshot was
\* made is not stamped inside the window of that call, the UTC day before it
C36_NoLateRowInWindow ==
    [][\A row \in AnalyzedRows(l2_batches_txs') \ AnalyzedRows(l2_batches_txs) :
          \A k \in DOMAIN sn_history :
             row.timestamp \div DAY # (sn_history[k].at \div DAY) - 1]_vars

-----------------------------------------------------------------------------
(* Every entry leaves the queue *)

\* the entry of t is due after the instant the clock of the model stops at
BeyondHorizon(t) ==
    \E i \in DOMAIN failed_transactions :
        /\ failed_transactions[i].tx_hash = t
        /\ failed_transactions[i].next_retry_at > MaxTimeLimit

\* C31: with the retry loop scheduled, the clock advancing and no call
\* failing, every entry of failed_transactions is eventually removed, unless
\* its next retry is due after the end of the clock of the model; and an entry
\* is removed only when its transaction is stored in l2_batches_txs or when it
\* was fetched with retry_count at MAX_RETRY_ATTEMPTS
C31_EveryEntryLeaves ==
    /\ \A t \in TxHashes : InFailed(t) ~> (~InFailed(t) \/ BeyondHorizon(t))
    /\ [][\A t \in TxHashes :
             (InFailed(t) /\ ~InFailed(t)')
             => \/ InAnalyzed(t)
                \/ r_pc = "evict" /\ r_tx.tx_hash = t
                               /\ r_tx.retry_count = MAX_RETRY_ATTEMPTS]_vars

\* the entry of 0xb was given up after its fifth failed retry and is gone
C31_Witness ==
    /\ ~InFailed("0xb")
    /\ ~InAnalyzed("0xb")
    /\ failures["0xb"] = 1 + MAX_RETRY_ATTEMPTS
    /\ r_pc = "sleep"
    /\ now = 3780

====
